---- MODULE Spec2Model ----
(***************************************************************************)
(* EventHub: a browser single-page application (JS/api.js: ApiService,     *)
(* Router, AuthManager; app.js: EventManagementApp) over a json-server     *)
(* collection store.                                                       *)
(*                                                                         *)
(* Two state machines share this module:                                   *)
(*   Spec     one browser tab: AuthManager (init, login, register,         *)
(*            updateProfile, logout), the persisted session, the Router    *)
(*            dispatch with its guards, the clock and the /users           *)
(*            collection of the server;                                    *)
(*   SpecReg  several clients running ApiService.registerForEvent and      *)
(*            cancelRegistration, one network call per step, against the   *)
(*            /events and /registrations collections.                      *)
(* The other specifications take parts of these: SpecAuth the AuthManager, *)
(* SpecRouter a router of its own, SpecForm the edit forms with            *)
(* UIManager.setupFormValidation, SpecTabs a second tab on the same        *)
(* localStorage.                                                           *)
(*                                                                         *)
(* Text values (user names, e-mail addresses, passwords) are sequences of  *)
(* one-character strings, so that length and pattern tests are computed.   *)
(* Time is counted in ticks of 24 hours.                                   *)
(***************************************************************************)
EXTENDS Integers, Sequences, FiniteSets, TLC

VARIABLES
  now,          \* the clock (Date.now()), in ticks
  users,        \* server: the /users collection, an array of user records
  nextUserId,   \* the id the next created user gets (Date.now() is fresh)
  storage,      \* localStorage["eventhub_session"]: Null or the session text
  currentUser,  \* AuthManager.currentUser
  phase,        \* "boot" | "validating" | "ready": EventManagementApp.init
  initSession,  \* the sessionData init() is validating
  authOp,       \* the AuthManager call awaiting its network response
  lastAuth,     \* the outcome of the AuthManager call the last step ended
  hash,         \* window.location.hash without the '#'
  currentRoute, \* Router.currentRoute
  view,         \* what UIManager.renderContent rendered last
  pending,      \* route handlers awaiting their network responses
  last,         \* what the dispatch (handleRoute chain) of the last step did
  events,       \* server: the /events collection
  regs,         \* server: the /registrations collection (rows)
  clients,      \* per client (tab), its ApiService call in flight
  regLog,       \* the ApiService call the last step ended (kept by a call
                \* that begins while no other is in flight)
  routes,       \* Router.routes: the registered routes, in insertion order
  authCallbacks, \* AuthManager.authCallbacks: the observers, in order
  form,         \* the form of the open modal (its fields' values and error
                \* marks), or Null
  formOp,       \* the request a form's submit handler awaits, or Null
  submitLog,    \* what the last click on a form's submit button did
  formSent      \* the requests the forms' submit handlers have sent

formVars == <<form, formOp, submitLog, formSent>>
tabVars == <<now, users, nextUserId, storage, currentUser, phase, initSession,
             authOp, lastAuth, hash, currentRoute, view, pending, last,
             formVars>>
regVars == <<events, regs, clients, regLog>>
setupVars == <<routes, authCallbacks>>
vars == <<tabVars, regVars, setupVars>>

(***************************************************************************)
(* Bounds of the model.                                                    *)
(***************************************************************************)
MaxTime == 2        \* ticks the clock runs
MaxNewUsers == 1    \* users created by register
MaxPending == 1     \* asynchronous route handlers in flight
MaxCallbacks == 3   \* observers registered with the AuthManager
MaxRoutes == 3      \* routes registered with a router of its own
MaxSubmits == 1     \* requests sent by the submit handlers of the forms

(***************************************************************************)
(* Program constants.                                                      *)
(***************************************************************************)
SessionTTL == 1     \* 24 * 60 * 60 * 1000 ms = one tick of 24 hours

Null == [null |-> TRUE]

(***************************************************************************)
(* JavaScript helpers.                                                     *)
(***************************************************************************)
\* {...a, ...b}: the fields of b over those of a; {...null} is {}.
Spread(a, b) ==
  LET fa == IF a = Null THEN {} ELSE DOMAIN a
      fb == IF b = Null THEN {} ELSE DOMAIN b
  IN [k \in fa \cup fb |-> IF k \in fb THEN b[k] ELSE a[k]]

\* !value for a text value: the empty text is falsy.
Falsy(text) == text = <<>>

\* Date.prototype.toISOString and new Date(text): a millisecond timestamp
\* is written as text and read back; the text keeps the whole timestamp.
toISOString(t) == [iso |-> t]
ParseDate(text) == text.iso

\* JSON.stringify / JSON.parse of the session record.
Stringify(obj) == [json |-> obj]
Parse(text) == text.json

(***************************************************************************)
(* Text constants.                                                         *)
(***************************************************************************)
TAdmin == <<"a", "d", "m", "i", "n">>
TAdminPw == <<"a", "d", "m", "i", "n", "1", "2", "3">>
TAdminMail == <<"a", "@", "e", ".", "c">>
TUser1 == <<"u", "s", "e", "r", "1">>
TUser1Pw == <<"u", "s", "e", "r", "1", "2", "3">>
TUser1Mail == <<"u", "@", "e", ".", "c">>
TNew == <<"n", "e", "w">>
TNewPw == <<"s", "e", "c", "r", "e", "t">>
TNewMail == <<"n", "@", "e", ".", "c">>
TShortPw == <<"a", "b", "c">>
TBadMail == <<"n", "@", "e">>
TName == <<"N">>
TZed == <<"Z">>

\* db.json as documented (test credentials): one admin, one regular user.
AdminRecord ==
  [id |-> 1, username |-> TAdmin, email |-> TAdminMail, password |-> TAdminPw,
   firstName |-> TName, lastName |-> TName, role |-> "admin"]
User1Record ==
  [id |-> 2, username |-> TUser1, email |-> TUser1Mail, password |-> TUser1Pw,
   firstName |-> TName, lastName |-> TName, role |-> "user"]

(***************************************************************************)
(* AuthManager (JS/api.js 631-975).                                        *)
(***************************************************************************)
\* saveSession: localStorage.setItem(sessionKey, JSON.stringify(sessionData))
saveSession(sessionData) == Stringify(sessionData)

\* the session user built with the role register() gives new accounts
SessionUser_DefaultRole(user) ==
  [id |-> user.id, username |-> user.username, email |-> user.email,
   firstName |-> user.firstName, lastName |-> user.lastName,
   role |-> "user"]

\* the user object login() puts in the session
SessionUser(user) ==
  [id |-> user.id, username |-> user.username, email |-> user.email,
   firstName |-> user.firstName, lastName |-> user.lastName,
   role |-> user.role]

\* the sessionData login() builds at time t
NewSession(user, t) ==
  [user |-> SessionUser(user),
   loginTime |-> toISOString(t),
   expiresAt |-> toISOString(t + SessionTTL)]

\* the comparison of validateSession turned around
SessionExpired_Reversed(sessionData, t) == t < ParseDate(sessionData.expiresAt)

\* validateSession: new Date() > new Date(sessionData.expiresAt)
SessionExpired(sessionData, t) == t > ParseDate(sessionData.expiresAt)

\* login: (u.username === identifier || u.email === identifier)
\*        && u.password === password
MatchesCredentials(u, identifier, password) ==
  /\ (u.username = identifier \/ u.email = identifier)
  /\ u.password = password

\* users.find(...): the first matching user of the array, or Null
FindUser(arr, identifier, password) ==
  LET hits == {i \in 1..Len(arr) : MatchesCredentials(arr[i], identifier, password)}
  IN IF hits = {} THEN Null
     ELSE arr[CHOOSE i \in hits : \A j \in hits : i <= j]

\* isValidEmail: /^[^\s@]+@[^\s@]+\.[^\s@]+$/
isValidEmail(email) ==
  \E i \in 1..Len(email) :
    /\ email[i] = "@"
    /\ i > 1
    /\ \A k \in 1..Len(email) : email[k] # " " /\ (email[k] = "@" => k = i)
    /\ \E j \in (i + 2)..(Len(email) - 1) : email[j] = "."

\* isValidPassword: password && password.length >= 6
isValidPassword(password) == ~Falsy(password) /\ Len(password) >= 6

RequiredFields == <<"firstName", "lastName", "username", "email", "password">>

\* the validations of register with the password tested before the e-mail
\* address
RegisterValidation_PasswordFirst(userData) ==
  LET missing == {i \in 1..Len(RequiredFields) : Falsy(userData[RequiredFields[i]])}
  IN IF missing # {}
       THEN <<"required", RequiredFields[CHOOSE i \in missing : \A j \in missing : i <= j]>>
     ELSE IF ~isValidPassword(userData.password) THEN <<"weak-password">>
     ELSE IF ~isValidEmail(userData.email) THEN <<"invalid-email">>
     ELSE <<"ok">>

\* register: the first failing validation, or "ok"
RegisterValidation(userData) ==
  LET missing == {i \in 1..Len(RequiredFields) : Falsy(userData[RequiredFields[i]])}
  IN IF missing # {}
       THEN <<"required", RequiredFields[CHOOSE i \in missing : \A j \in missing : i <= j]>>
     ELSE IF ~isValidEmail(userData.email) THEN <<"invalid-email">>
     ELSE IF ~isValidPassword(userData.password) THEN <<"weak-password">>
     ELSE <<"ok">>

\* register: the newUser object posted to /users
NewUser(userData, id) ==
  [id |-> id, username |-> userData.username, email |-> userData.email,
   password |-> userData.password, firstName |-> userData.firstName,
   lastName |-> userData.lastName, role |-> "user"]

\* the server: index of the user with this id in the collection, or 0
UserIndex(arr, id) ==
  IF \E i \in 1..Len(arr) : arr[i].id = id
    THEN CHOOSE i \in 1..Len(arr) : arr[i].id = id
    ELSE 0

\* the server: DELETE /users/:id
RemoveUser(arr, id) == SelectSeq(arr, LAMBDA u : u.id # id)

\* notifyAuthStateChange(user) with the one observer app.js registers
Notified(user) == <<user>>

\* the observer that throws when it is called
Throws(callback) == callback = "failing"

\* forEach without the try/catch: the first throwing observer ends it
notifyAuthStateChange_NoCatch(callbacks, user) ==
  LET throwing == {i \in 1..Len(callbacks) : Throws(callbacks[i])}
      n == IF throwing = {} THEN Len(callbacks)
           ELSE CHOOSE i \in throwing : \A j \in throwing : i <= j
  IN [i \in 1..n |-> [callback |-> callbacks[i], user |-> user]]

\* notifyAuthStateChange: authCallbacks.forEach, each call in a try/catch,
\* so a throwing observer does not keep the later ones from being called.
\* The result is the calls made, in order.
notifyAuthStateChange(callbacks, user) ==
  [i \in 1..Len(callbacks) |-> [callback |-> callbacks[i], user |-> user]]

AuthResult(op, outcome, notified) ==
  [op |-> op, outcome |-> outcome, notified |-> notified,
   calls |-> IF notified = <<>> THEN <<>>
             ELSE notifyAuthStateChange(authCallbacks, notified[1])]

(***************************************************************************)
(* Router (JS/api.js 356-625) and the route table of app.js.               *)
(***************************************************************************)
\* A path is kept as its text; Segments gives the parts between the '/'
\* after the leading one ("/" has the single empty part).
Segments(path) ==
  CASE path = "/" -> <<"">>
    [] path = "/login" -> <<"login">>
    [] path = "/register" -> <<"register">>
    [] path = "/profile" -> <<"profile">>
    [] path = "/my-events" -> <<"my-events">>
    [] path = "/enrollment" -> <<"enrollment">>
    [] path = "/admin" -> <<"admin">>
    [] path = "/admin/events" -> <<"admin", "events">>
    [] path = "/admin/users" -> <<"admin", "users">>
    [] path = "/events/:id" -> <<"events", ":id">>
    [] path = "/events/42" -> <<"events", "42">>
    [] path = "/events/new" -> <<"events", "new">>
    [] path = "/events/:id/users/:uid" -> <<"events", ":id", "users", ":uid">>
    [] path = "/events/42/users/7" -> <<"events", "42", "users", "7">>
    [] path = "/nope" -> <<"nope">>

\* match.slice(1) for a part of the form ":name", "" for any other part
ParamName(part) ==
  IF part = ":id" THEN "id" ELSE IF part = ":uid" THEN "uid" ELSE ""

\* addRoute: ":name" parts become the capture group ([^/]+); the names are
\* kept in order.  The route "*" becomes the pattern ^.*$.
addRoute(path, handler, requiresAuth, requiredRole) ==
  LET parts == IF path = "*" THEN <<>> ELSE Segments(path)
  IN [originalPath |-> path,
      wildcard |-> path = "*",
      pattern |-> [i \in 1..Len(parts) |->
                     IF ParamName(parts[i]) # "" THEN [capture |-> TRUE]
                     ELSE [literal |-> parts[i]]],
      paramNames |-> LET named == SelectSeq(parts, LAMBDA x : ParamName(x) # "")
                     IN [i \in 1..Len(named) |-> ParamName(named[i])],
      handler |-> handler,
      requiresAuth |-> requiresAuth,
      requiredRole |-> requiredRole]

\* path.match(route.pattern)
Matches(route, path) ==
  \/ route.wildcard
  \/ LET parts == Segments(path)
     IN /\ Len(parts) = Len(route.pattern)
        /\ \A i \in 1..Len(parts) :
             IF "capture" \in DOMAIN route.pattern[i]
               THEN parts[i] # ""
               ELSE parts[i] = route.pattern[i].literal

\* setupRoutes (app.js), in registration order; requiredRole null is ""
Routes ==
  << addRoute("/", "renderHome", FALSE, ""),
     addRoute("/login", "renderLogin", FALSE, ""),
     addRoute("/register", "renderRegister", FALSE, ""),
     addRoute("/profile", "renderProfile", TRUE, ""),
     addRoute("/my-events", "renderMyEvents", TRUE, ""),
     addRoute("/enrollment", "renderEnrollment", TRUE, ""),
     addRoute("/admin", "renderAdmin", TRUE, "admin"),
     addRoute("/admin/events", "renderAdminEvents", TRUE, "admin"),
     addRoute("/admin/users", "renderAdminUsers", TRUE, "admin"),
     addRoute("*", "render404", FALSE, "") >>

\* setupNavigation (app.js) registers the one observer of the application
AppCallbacks == <<"updateNavigation">>

\* the paths a user opens: every route of the table and an unknown one
Paths == {"/", "/login", "/register", "/profile", "/my-events", "/enrollment",
          "/admin", "/admin/events", "/admin/users", "/nope"}

\* the loop of findMatchingRoute keeping the last match instead of
\* returning at the first
findMatchingRoute_LastMatch(table, path) ==
  LET hits == {i \in 1..Len(table) :
                 table[i].originalPath # "*" /\ Matches(table[i], path)}
  IN IF hits = {} THEN 0 ELSE CHOOSE i \in hits : \A j \in hits : i >= j

\* findMatchingRoute: the first non-wildcard route matching, 0 for none
findMatchingRoute(table, path) ==
  LET hits == {i \in 1..Len(table) :
                 table[i].originalPath # "*" /\ Matches(table[i], path)}
  IN IF hits = {} THEN 0 ELSE CHOOSE i \in hits : \A j \in hits : i <= j

\* the not-found route taken to be the route registered last
WildcardRoute_LastRoute(table) == Len(table)

\* this.routes.get("*")
WildcardRoute(table) ==
  LET hits == {i \in 1..Len(table) : table[i].originalPath = "*"}
  IN IF hits = {} THEN 0 ELSE CHOOSE i \in hits : TRUE

\* extractParams reading match[1] for every name
extractParams_FirstCapture(path, route) ==
  LET parts == Segments(path)
      caps == {i \in 1..Len(route.pattern) :
                 "capture" \in DOMAIN route.pattern[i]}
  IN IF Matches(route, path) /\ Len(route.paramNames) > 0
       THEN [n \in {route.paramNames[i] : i \in 1..Len(route.paramNames)} |->
               parts[CHOOSE i \in caps : \A j \in caps : i <= j]]
       ELSE <<>>

\* extractParams: the captured parts zipped with paramNames
extractParams(path, route) ==
  LET parts == Segments(path)
      caps == SelectSeq([i \in 1..Len(parts) |-> <<i, parts[i]>>],
                        LAMBDA x : /\ x[1] <= Len(route.pattern)
                                   /\ "capture" \in DOMAIN route.pattern[x[1]])
  IN IF Matches(route, path) /\ Len(route.paramNames) > 0
       THEN [n \in {route.paramNames[i] : i \in 1..Len(route.paramNames)} |->
               caps[CHOOSE i \in 1..Len(route.paramNames) :
                      route.paramNames[i] = n /\
                      \A j \in 1..Len(route.paramNames) :
                        route.paramNames[j] = n => j <= i][2]]
       ELSE <<>>

\* getCurrentPath: hash ? hash.slice(1) : "/"
getCurrentPath(h) == IF h = "" THEN "/" ELSE h

\* isAuthenticated: app.auth.getCurrentUser() !== null
isAuthenticated(user) == user # Null

\* hasRequiredRole without the comparison of the role
hasRequiredRole_AnyUser(user, requiredRole) == user # Null

\* hasRequiredRole: user && user.role === requiredRole
hasRequiredRole(user, requiredRole) ==
  user # Null /\ user.role = requiredRole

\* A dispatch works on the router's part of the tab, a record:
\*   hash, currentRoute, view, pending  the tab's variables of these names
\*   invoked   the handlers the dispatch called, in order
\*   denied    showAccessDenied ran
\*   navigations  navigate calls made since the dispatch began
\*   pushed    history entries pushed (pushState) since the dispatch began
\*   failing   the handlers that throw (or reject) when they are invoked
\*   thrown    a handler threw and its error has reached no catch yet
\*   errors    handleRouteError calls
\*   escaped   an error left handleRoute (its promise rejected)
RouterState(h, cr, v, p) ==
  [hash |-> h, currentRoute |-> cr, view |-> v, pending |-> p,
   invoked |-> <<>>, denied |-> FALSE, navigations |-> 0, pushed |-> 0,
   failing |-> {}, thrown |-> FALSE, errors |-> 0, escaped |-> FALSE]

\* showAccessDenied: app.ui.renderContent(the 403 page)
showAccessDenied(rs) == [rs EXCEPT !.view = "denied", !.denied = TRUE]

\* a handler that awaits network calls before it renders
Awaiting(rs, page) == [rs EXCEPT !.pending = @ \cup {page}]

\* the catch of handleRoute around `await route.handler(params)`:
\* handleRouteError renders the 500 page
handleRouteError(rs) ==
  IF rs.thrown
    THEN [rs EXCEPT !.thrown = FALSE, !.view = "error", !.errors = @ + 1]
    ELSE rs

\* `await notFoundRoute.handler()` stands outside the try: an error of the
\* handler rejects the promise of handleRoute
Uncaught(rs) ==
  IF rs.thrown THEN [rs EXCEPT !.thrown = FALSE, !.escaped = TRUE] ELSE rs

RECURSIVE handleRoute(_, _)
RECURSIVE navigate(_, _, _, _)
RECURSIVE RunHandler(_, _, _)

\* the route handlers of app.js, up to their first network call; a handler
\* of another name renders a page of that name; a failing one throws
RunHandler(rs0, handler, user) ==
  LET rs == [rs0 EXCEPT !.invoked = Append(@, handler)]
  IN CASE handler \in rs.failing -> [rs EXCEPT !.thrown = TRUE]
       [] handler = "renderHome" -> Awaiting(rs, "home")
       [] handler = "renderLogin" ->
            IF user # Null THEN navigate(rs, "/", FALSE, user)
            ELSE [rs EXCEPT !.view = "login"]
       [] handler = "renderRegister" ->
            IF user # Null THEN navigate(rs, "/", FALSE, user)
            ELSE [rs EXCEPT !.view = "register"]
       [] handler = "renderProfile" ->
            IF user = Null THEN navigate(rs, "/login", FALSE, user)
            ELSE [rs EXCEPT !.view = "profile"]
       [] handler = "renderMyEvents" ->
            IF user = Null THEN navigate(rs, "/login", FALSE, user)
            ELSE Awaiting(rs, "my-events")
       [] handler = "renderEnrollment" ->
            IF user = Null THEN navigate(rs, "/login", FALSE, user)
            ELSE Awaiting(rs, "enrollment")
       [] handler = "renderAdmin" -> Awaiting(rs, "admin")
       [] handler = "renderAdminEvents" -> Awaiting(rs, "admin-events")
       [] handler = "renderAdminUsers" -> Awaiting(rs, "admin-users")
       [] handler = "render404" -> [rs EXCEPT !.view = "404"]
       [] OTHER -> [rs EXCEPT !.view = handler]

\* handleRoute without its requiresAuth test
AuthGuardFails_Never(route, user) == FALSE

\* the requiresAuth test made only for routes without a required role (the
\* role test taken to cover them)
AuthGuardFails_RoleFirst(route, user) ==
  route.requiresAuth /\ route.requiredRole = "" /\ ~isAuthenticated(user)

\* the requiresAuth test of handleRoute
AuthGuardFails(route, user) == route.requiresAuth /\ ~isAuthenticated(user)

\* the requiredRole test of handleRoute
RoleGuardFails(route, user) ==
  route.requiredRole # "" /\ ~hasRequiredRole(user, route.requiredRole)

\* handleRoute, with the current user the guards read
handleRoute(rs, user) ==
  LET path == getCurrentPath(rs.hash)
      i == findMatchingRoute(routes, path)
  IN IF i = 0
       THEN IF WildcardRoute(routes) # 0
              THEN Uncaught(
                     RunHandler(rs, routes[WildcardRoute(routes)].handler,
                                user))
              ELSE rs
     ELSE IF AuthGuardFails(routes[i], user)
       THEN navigate(rs, "/login", FALSE, user)
     ELSE IF RoleGuardFails(routes[i], user)
       THEN showAccessDenied(rs)
     ELSE handleRouteError(
            RunHandler(
              [rs EXCEPT !.currentRoute =
                 [path |-> path, route |-> routes[i].originalPath,
                  params |-> extractParams(path, routes[i])]],
              routes[i].handler, user))

\* navigate: pushState or replaceState, then handleRoute
navigate(rs, path, replace, user) ==
  handleRoute([rs EXCEPT !.hash = path,
                         !.navigations = @ + 1,
                         !.pushed = IF replace THEN @ ELSE @ + 1], user)

\* what a dispatch leaves in `last`: op is "start", "navigate", "popstate"
\* or "refresh"; redirects are the navigate calls the dispatch itself made
DispatchResult(op, path, user, rs) ==
  [op |-> op, path |-> path, user |-> user, invoked |-> rs.invoked,
   denied |-> rs.denied, pushed |-> rs.pushed,
   redirects |-> rs.navigations - (IF op = "navigate" THEN 1 ELSE 0),
   failing |-> rs.failing, errors |-> rs.errors, escaped |-> rs.escaped]

NoDispatch ==
  [op |-> "none", path |-> "", user |-> Null, invoked |-> <<>>,
   denied |-> FALSE, pushed |-> 0, redirects |-> 0,
   failing |-> {}, errors |-> 0, escaped |-> FALSE]

NoAuth == AuthResult("none", "none", <<>>)

\* no click on a submit button yet
NoSubmit ==
  [fired |-> FALSE, blocked |-> FALSE, invalid |-> {}, prevented |-> 0,
   toasts |-> <<>>, calls |-> <<>>]

(***************************************************************************)
(* The tab: state after the page is loaded and before app.init runs.       *)
(***************************************************************************)
InitTab ==
  /\ now = 0
  /\ users = <<AdminRecord, User1Record>>
  /\ nextUserId = 3
  /\ storage = Null
  /\ currentUser = Null
  /\ phase = "boot"
  /\ initSession = Null
  /\ authOp = Null
  /\ lastAuth = NoAuth
  /\ hash = ""
  /\ currentRoute = Null
  /\ view = "blank"
  /\ pending = {}
  /\ last = NoDispatch
  /\ form = Null
  /\ formOp = Null
  /\ submitLog = NoSubmit
  /\ formSent = 0

\* the application's routes and observer are registered
AppSetup ==
  /\ routes = Routes
  /\ authCallbacks = AppCallbacks

\* the router's variables after a dispatch that ended in rs
RouterBecomes(op, path, user, rs) ==
  /\ Cardinality(rs.pending) <= MaxPending
  /\ hash' = rs.hash
  /\ currentRoute' = rs.currentRoute
  /\ view' = rs.view
  /\ pending' = rs.pending
  /\ last' = DispatchResult(op, path, user, rs)

RouterNow == RouterState(hash, currentRoute, view, pending)

\* the clock advances
Tick ==
  /\ now < MaxTime
  /\ now' = now + 1
  /\ UNCHANGED <<users, nextUserId, storage, currentUser, phase, initSession,
                 authOp, hash, currentRoute, view, pending>>
  /\ lastAuth' = NoAuth
  /\ last' = NoDispatch
  /\ UNCHANGED <<regVars, setupVars, formVars>>

\* init ending without its clearSession
InitEnds_KeepsRecord(user, store, outcome) ==
  /\ currentUser' = user
  /\ UNCHANGED storage
  /\ lastAuth' = AuthResult("init", outcome, Notified(user))
  /\ phase' = "ready"
  /\ initSession' = Null
  /\ RouterBecomes("start", getCurrentPath(hash), user,
                   handleRoute(RouterNow, user))
  /\ UNCHANGED <<now, users, nextUserId, authOp>>
  /\ UNCHANGED <<regVars, setupVars, formVars>>

\* AuthManager.init ends (with app.init's router.start() after it)
InitEnds(user, store, outcome) ==
  /\ currentUser' = user
  /\ storage' = store
  /\ lastAuth' = AuthResult("init", outcome, Notified(user))
  /\ phase' = "ready"
  /\ initSession' = Null
  /\ RouterBecomes("start", getCurrentPath(hash), user,
                   handleRoute(RouterNow, user))
  /\ UNCHANGED <<now, users, nextUserId, authOp>>
  /\ UNCHANGED <<regVars, setupVars, formVars>>

\* AuthManager.init up to the fetch of validateSession
InitStart ==
  /\ phase = "boot"
  /\ IF storage = Null
       THEN InitEnds(Null, storage, "no-session")
     ELSE IF SessionExpired(Parse(storage), now)
       THEN InitEnds(Null, Null, "expired")
     ELSE /\ phase' = "validating"
          /\ initSession' = Parse(storage)
          /\ UNCHANGED <<now, users, nextUserId, storage, currentUser, authOp,
                         hash, currentRoute, view, pending>>
          /\ lastAuth' = NoAuth
          /\ last' = NoDispatch
          /\ UNCHANGED <<regVars, setupVars, formVars>>

\* validateSession answering true whatever the response
SessionValid_Always(resp) == TRUE

\* validateSession failing closed when the fetch throws
SessionValid_FailClosed(resp) == resp = "ok"

\* validateSession after its fetch of /users/:id: true for an OK response,
\* false for another response, true when the fetch throws
SessionValid(resp) == resp = "ok" \/ resp = "neterr"

\* the log of an init that validated its session: the answer it got
LookupOutcome(resp) ==
  CASE resp = "ok" -> "lookup-ok"
    [] resp = "notok" -> "lookup-notok"
    [] resp = "neterr" -> "lookup-neterr"

\* the response of GET /users/:id arrives (or the fetch throws)
InitValidated(resp) ==
  /\ phase = "validating"
  /\ resp = "ok" => UserIndex(users, initSession.user.id) # 0
  /\ resp = "notok" => UserIndex(users, initSession.user.id) = 0
  /\ IF SessionValid(resp)
       THEN InitEnds(initSession.user, storage, LookupOutcome(resp))
       ELSE InitEnds(Null, Null, LookupOutcome(resp))

\* the page is reloaded: the in-memory state is lost, localStorage and the
\* URL stay
Reload ==
  /\ phase # "boot"
  /\ phase' = "boot"
  /\ currentUser' = Null
  /\ initSession' = Null
  /\ authOp' = Null
  /\ lastAuth' = NoAuth
  /\ currentRoute' = Null
  /\ view' = "blank"
  /\ pending' = {}
  /\ last' = NoDispatch
  /\ UNCHANGED <<now, users, nextUserId, storage, hash>>
  /\ routes' = Routes
  /\ authCallbacks' = AppCallbacks
  /\ form' = Null
  /\ formOp' = Null
  /\ submitLog' = NoSubmit
  /\ UNCHANGED formSent
  /\ UNCHANGED regVars

routerVars == <<hash, currentRoute, view, pending>>

\* a rejecting call that also drops the session
Rejects_ClearsSession(op, outcome) ==
  /\ lastAuth' = AuthResult(op, outcome, <<>>)
  /\ storage' = Null
  /\ currentUser' = Null

\* an AuthManager call rejects: nothing but its outcome changes
Rejects(op, outcome) ==
  /\ lastAuth' = AuthResult(op, outcome, <<>>)
  /\ UNCHANGED <<storage, currentUser>>

(***************************************************************************)
(* AuthManager.login                                                       *)
(***************************************************************************)
\* the (identifier, password) pairs tried: an empty identifier, the admin by
\* user name, the regular user by e-mail, a wrong password, the new user
Credentials ==
  {<<<<>>, TAdminPw>>, <<TAdmin, TAdminPw>>, <<TUser1Mail, TUser1Pw>>,
   <<TUser1, TAdminPw>>, <<TNew, TNewPw>>}

\* login(identifier, password) up to its fetch of /users
LoginCall(identifier, password) ==
  /\ phase = "ready"
  /\ authOp = Null
  /\ IF Falsy(identifier) \/ Falsy(password)
       THEN Rejects("login", "required") /\ UNCHANGED authOp
       ELSE /\ authOp' = [kind |-> "login", via |-> "login",
                          identifier |-> identifier, password |-> password]
            /\ UNCHANGED <<storage, currentUser>>
            /\ lastAuth' = NoAuth
  /\ UNCHANGED <<now, users, nextUserId, phase, initSession>>
  /\ UNCHANGED routerVars
  /\ last' = NoDispatch
  /\ UNCHANGED <<regVars, setupVars, formVars>>

\* login after the response of GET /users
LoginResponse(resp) ==
  /\ phase = "ready"
  /\ authOp # Null
  /\ authOp.kind = "login"
  /\ authOp' = Null
  /\ IF resp = "ok"
       THEN LET user == FindUser(users, authOp.identifier, authOp.password)
                sessionData == NewSession(user, now)
            IN IF user = Null
                 THEN Rejects(authOp.via, "invalid-credentials")
                 ELSE /\ storage' = saveSession(sessionData)
                      /\ currentUser' = sessionData.user
                      /\ lastAuth' = AuthResult(authOp.via, "ok",
                                                Notified(sessionData.user))
     ELSE IF resp = "notok"
       THEN Rejects(authOp.via, "auth-server")
     ELSE Rejects(authOp.via, "network")
  /\ UNCHANGED <<now, users, nextUserId, phase, initSession>>
  /\ UNCHANGED routerVars
  /\ last' = NoDispatch
  /\ UNCHANGED <<regVars, setupVars, formVars>>

(***************************************************************************)
(* AuthManager.register                                                    *)
(***************************************************************************)
RegisterInputs ==
  [firstName : {TName}, lastName : {<<>>, TName}, username : {TAdmin, TNew},
   email : {TUser1Mail, TNewMail, TBadMail}, password : {TNewPw, TShortPw}]

\* register(userData) up to its fetch of /users
RegisterCall(userData) ==
  /\ phase = "ready"
  /\ authOp = Null
  /\ IF RegisterValidation(userData) # <<"ok">>
       THEN Rejects("register", RegisterValidation(userData)[1])
            /\ UNCHANGED authOp
       ELSE /\ nextUserId < 3 + MaxNewUsers
            /\ authOp' = [kind |-> "register-check", userData |-> userData]
            /\ UNCHANGED <<storage, currentUser>>
            /\ lastAuth' = NoAuth
  /\ UNCHANGED <<now, users, nextUserId, phase, initSession>>
  /\ UNCHANGED routerVars
  /\ last' = NoDispatch
  /\ UNCHANGED <<regVars, setupVars, formVars>>

\* register checking the user name only before it posts the new user
RegisterChecked_UsernameOnly(resp) ==
  /\ phase = "ready"
  /\ authOp # Null
  /\ authOp.kind = "register-check"
  /\ LET userData == authOp.userData
         usernameExists == \E i \in 1..Len(users) :
                             users[i].username = userData.username
     IN IF resp # "ok"
          THEN Rejects("register", "network") /\ authOp' = Null
                 /\ UNCHANGED nextUserId
        ELSE IF usernameExists
          THEN Rejects("register", "username-exists") /\ authOp' = Null
                 /\ UNCHANGED nextUserId
        ELSE /\ authOp' = [kind |-> "register-post", userData |-> userData,
                           newUser |-> NewUser(userData, nextUserId)]
             /\ nextUserId' = nextUserId + 1
             /\ UNCHANGED <<storage, currentUser>>
             /\ lastAuth' = NoAuth
  /\ UNCHANGED <<now, users, phase, initSession>>
  /\ UNCHANGED routerVars
  /\ last' = NoDispatch
  /\ UNCHANGED <<regVars, setupVars, formVars>>

\* register after the response of GET /users: the uniqueness checks, then
\* the POST of the new user
RegisterChecked(resp) ==
  /\ phase = "ready"
  /\ authOp # Null
  /\ authOp.kind = "register-check"
  /\ LET userData == authOp.userData
         usernameExists == \E i \in 1..Len(users) :
                             users[i].username = userData.username
         emailExists == \E i \in 1..Len(users) : users[i].email = userData.email
     IN IF resp # "ok"
          THEN Rejects("register", "network") /\ authOp' = Null
                 /\ UNCHANGED nextUserId
        ELSE IF usernameExists
          THEN Rejects("register", "username-exists") /\ authOp' = Null
                 /\ UNCHANGED nextUserId
        ELSE IF emailExists
          THEN Rejects("register", "email-exists") /\ authOp' = Null
                 /\ UNCHANGED nextUserId
        ELSE /\ authOp' = [kind |-> "register-post", userData |-> userData,
                           newUser |-> NewUser(userData, nextUserId)]
             /\ nextUserId' = nextUserId + 1
             /\ UNCHANGED <<storage, currentUser>>
            /\ lastAuth' = NoAuth
  /\ UNCHANGED <<now, users, phase, initSession>>
  /\ UNCHANGED routerVars
  /\ last' = NoDispatch
  /\ UNCHANGED <<regVars, setupVars, formVars>>

\* register after the response of POST /users: the automatic login begins
RegisterPosted(resp) ==
  /\ phase = "ready"
  /\ authOp # Null
  /\ authOp.kind = "register-post"
  /\ IF resp = "ok"
       THEN /\ users' = Append(users, authOp.newUser)
            /\ authOp' = [kind |-> "login", via |-> "register",
                          identifier |-> authOp.userData.username,
                          password |-> authOp.userData.password]
            /\ UNCHANGED <<storage, currentUser>>
            /\ lastAuth' = NoAuth
       ELSE /\ Rejects("register",
                       IF resp = "notok" THEN "create-failed" ELSE "network")
            /\ authOp' = Null
            /\ UNCHANGED users
  /\ UNCHANGED <<now, nextUserId, phase, initSession>>
  /\ UNCHANGED routerVars
  /\ last' = NoDispatch
  /\ UNCHANGED <<regVars, setupVars, formVars>>

(***************************************************************************)
(* AuthManager.updateProfile                                               *)
(***************************************************************************)
ProfileUpdates == {[firstName |-> TZed], [password |-> TNewPw]}

\* updateProfile(updateData) up to its PATCH of /users/:id
UpdateProfileCall(updateData) ==
  /\ phase = "ready"
  /\ authOp = Null
  /\ IF currentUser = Null
       THEN Rejects("updateProfile", "not-authenticated") /\ UNCHANGED authOp
       ELSE /\ authOp' = [kind |-> "update", id |-> currentUser.id,
                          updateData |-> updateData]
            /\ UNCHANGED <<storage, currentUser>>
            /\ lastAuth' = NoAuth
  /\ UNCHANGED <<now, users, nextUserId, phase, initSession>>
  /\ UNCHANGED routerVars
  /\ last' = NoDispatch
  /\ UNCHANGED <<regVars, setupVars, formVars>>

\* the server: PATCH /users/:id answers with the whole updated record
PatchedUser(user, updateData) == Spread(user, updateData)

\* updateProfile: this.currentUser = { ...this.currentUser, ...updatedUser }
MergedUser(user, updatedUser) == Spread(user, updatedUser)

\* updateProfile after the response of PATCH /users/:id
UpdateProfileResponse(resp) ==
  /\ phase = "ready"
  /\ authOp # Null
  /\ authOp.kind = "update"
  /\ authOp' = Null
  /\ resp = "ok" => UserIndex(users, authOp.id) # 0
  /\ resp = "notok" => UserIndex(users, authOp.id) = 0
  /\ IF resp = "ok"
       THEN LET i == UserIndex(users, authOp.id)
                updatedUser == PatchedUser(users[i], authOp.updateData)
                merged == MergedUser(currentUser, updatedUser)
            IN /\ users' = [users EXCEPT ![i] = updatedUser]
               /\ currentUser' = merged
               /\ IF storage = Null
                    \* JSON.parse(null) is null: sessionData.user throws
                    THEN /\ lastAuth' = AuthResult("updateProfile",
                                                   "type-error", <<>>)
                         /\ UNCHANGED storage
                    ELSE /\ storage' = saveSession(
                              [Parse(storage) EXCEPT !.user = merged])
                         /\ lastAuth' = AuthResult("updateProfile", "ok",
                                                   Notified(merged))
       ELSE /\ Rejects("updateProfile",
                       IF resp = "notok" THEN "update-failed" ELSE "network")
            /\ UNCHANGED users
  /\ UNCHANGED <<now, nextUserId, phase, initSession>>
  /\ UNCHANGED routerVars
  /\ last' = NoDispatch
  /\ UNCHANGED <<regVars, setupVars, formVars>>

(***************************************************************************)
(* AuthManager.logout                                                      *)
(***************************************************************************)
\* logout without its clearSession
Logout_KeepsRecord ==
  /\ phase = "ready"
  /\ UNCHANGED storage
  /\ currentUser' = Null
  /\ lastAuth' = AuthResult("logout", "ok", Notified(Null))
  /\ UNCHANGED <<now, users, nextUserId, phase, initSession, authOp>>
  /\ UNCHANGED routerVars
  /\ last' = NoDispatch
  /\ UNCHANGED <<regVars, setupVars, formVars>>

Logout ==
  /\ phase = "ready"
  /\ storage' = Null
  /\ currentUser' = Null
  /\ lastAuth' = AuthResult("logout", "ok", Notified(Null))
  /\ UNCHANGED <<now, users, nextUserId, phase, initSession, authOp>>
  /\ UNCHANGED routerVars
  /\ last' = NoDispatch
  /\ UNCHANGED <<regVars, setupVars, formVars>>

(***************************************************************************)
(* A second tab of the same origin: it shares localStorage and nothing    *)
(* else with this tab.                                                     *)
(***************************************************************************)
\* tabs kept in step: this tab drops its user when the record is removed
OtherTabLogout_Synced ==
  /\ phase = "ready"
  /\ storage # Null
  /\ storage' = Null
  /\ currentUser' = Null
  /\ UNCHANGED <<now, users, nextUserId, phase, initSession, authOp>>
  /\ lastAuth' = NoAuth
  /\ UNCHANGED routerVars
  /\ last' = NoDispatch
  /\ UNCHANGED <<regVars, setupVars, formVars>>

\* logout() runs in the other tab: its clearSession removes the record;
\* this tab registers no listener for the change
OtherTabLogout ==
  /\ phase = "ready"
  /\ storage # Null
  /\ storage' = Null
  /\ UNCHANGED <<now, users, nextUserId, currentUser, phase, initSession,
                 authOp>>
  /\ lastAuth' = NoAuth
  /\ UNCHANGED routerVars
  /\ last' = NoDispatch
  /\ UNCHANGED <<regVars, setupVars, formVars>>

(***************************************************************************)
(* The server's /users collection changed by another client (an admin    *)
(* deleting a user: app.js confirmDeleteUser -> ApiService.deleteUser).    *)
(***************************************************************************)
\* the account the other administrator deletes: the regular user
DeletableUsers == {2}

ServerDeleteUser(id) ==
  /\ UserIndex(users, id) # 0
  /\ users' = RemoveUser(users, id)
  /\ UNCHANGED <<now, nextUserId, storage, currentUser, phase, initSession,
                 authOp>>
  /\ lastAuth' = NoAuth
  /\ UNCHANGED routerVars
  /\ last' = NoDispatch
  /\ UNCHANGED <<regVars, setupVars, formVars>>

(***************************************************************************)
(* Router dispatches.                                                      *)
(***************************************************************************)
authVars == <<now, users, nextUserId, storage, currentUser, phase,
              initSession, authOp>>

\* Router.navigate(path, replace): a link click or a programmatic call
Navigate(path, replace) ==
  /\ phase = "ready"
  /\ RouterBecomes("navigate", path, currentUser,
                   navigate(RouterNow, path, replace, currentUser))
  /\ UNCHANGED authVars
  /\ lastAuth' = NoAuth
  /\ UNCHANGED <<regVars, setupVars, formVars>>

\* handlePopState: the browser moved to another history entry
PopState(path) ==
  /\ phase = "ready"
  /\ RouterBecomes("popstate", path, currentUser,
                   handleRoute([RouterNow EXCEPT !.hash = path], currentUser))
  /\ UNCHANGED authVars
  /\ lastAuth' = NoAuth
  /\ UNCHANGED <<regVars, setupVars, formVars>>

\* Router.refresh()
Refresh ==
  /\ phase = "ready"
  /\ RouterBecomes("refresh", getCurrentPath(hash), currentUser,
                   handleRoute(RouterNow, currentUser))
  /\ UNCHANGED authVars
  /\ lastAuth' = NoAuth
  /\ UNCHANGED <<regVars, setupVars, formVars>>

\* an asynchronous route handler gets its responses and renders its page,
\* or a request of it fails and it only shows a toast
HandlerSettles(page, ok) ==
  /\ page \in pending
  /\ pending' = pending \ {page}
  /\ view' = IF ok THEN page ELSE view
  /\ UNCHANGED <<hash, currentRoute>>
  /\ last' = NoDispatch
  /\ UNCHANGED authVars
  /\ lastAuth' = NoAuth
  /\ UNCHANGED <<regVars, setupVars, formVars>>

(***************************************************************************)
(* The edit forms of app.js (edit-user-form, edit-profile-form) with       *)
(* UIManager.setupFormValidation (JS/ui-manager.js 209-278).               *)
(***************************************************************************)
\* String.prototype.trim for text with blanks
Trim(text) ==
  LET solid == {i \in 1..Len(text) : text[i] # " "}
  IN IF solid = {} THEN <<>>
     ELSE SubSeq(text, CHOOSE i \in solid : \A j \in solid : i <= j,
                       CHOOSE i \in solid : \A j \in solid : i >= j)

\* the validationRules of a form, in the order of Object.keys; minLength 0
\* stands for a rule without minLength.  (The role of the user form is a
\* select that always has a value; its rule and field are left out.)
validationRules(formId) ==
  LET name == [name |-> "", required |-> TRUE, minLength |-> 2, email |-> FALSE]
      firstName == [name EXCEPT !.name = "firstName"]
      lastName == [name EXCEPT !.name = "lastName"]
      username == [name EXCEPT !.name = "username", !.minLength = 3]
      email == [name |-> "email", required |-> TRUE, minLength |-> 0,
                email |-> TRUE]
      password == [name |-> "password", required |-> FALSE, minLength |-> 6,
                   email |-> FALSE]
  IN IF formId = "edit-user-form"
       THEN <<firstName, lastName, username, email, password>>
       ELSE <<firstName, lastName, email, password>>

\* validateField: the error of a field's value under its rule, "" for a
\* valid value
validateField(text, rule) ==
  LET value == Trim(text)
  IN IF rule.required /\ value = <<>> THEN "required"
     ELSE IF rule.email /\ value # <<>> /\ ~isValidEmail(value) THEN "email"
     ELSE IF rule.minLength # 0 /\ Len(value) < rule.minLength
       THEN "minLength"
     ELSE ""

\* the markup of the forms: the inputs with the `required` attribute, the
\* inputs of type email, and whether the fields have a .form-error element
FormMarkup(formId) ==
  IF formId = "edit-user-form"
    THEN [required |-> {"firstName", "lastName", "username", "email"},
          email |-> {"email"}, errorElements |-> TRUE]
    ELSE [required |-> {"firstName", "lastName", "email"},
          email |-> {"email"}, errorElements |-> FALSE]

\* the browser's constraint validation of a click on the submit button: a
\* required input has a value, an e-mail input's value has one '@' between
\* two non-empty parts without blanks
NativeValid(formId, values) ==
  \A f \in DOMAIN values :
    /\ f \in FormMarkup(formId).required => values[f] # <<>>
    /\ (f \in FormMarkup(formId).email /\ values[f] # <<>>)
         => \E i \in 2..(Len(values[f]) - 1) :
              /\ values[f][i] = "@"
              /\ \A k \in 1..Len(values[f]) :
                   values[f][k] # " " /\ (values[f][k] = "@" => k = i)

\* the form a modal opens with the values of a user
FormOf(formId, user) ==
  LET rules == validationRules(formId)
      names == {rules[i].name : i \in 1..Len(rules)}
  IN [id |-> formId, user |-> user.id,
      values |-> [f \in names |-> IF f = "password" THEN <<>> ELSE user[f]],
      marks |-> [f \in names |-> FALSE],
      messages |-> [f \in names |-> ""]]

\* the form after validateField ran on the fields of `names`
Validated(names) ==
  LET rules == validationRules(form.id)
      errorOf(f) == validateField(form.values[f],
                                  rules[CHOOSE i \in 1..Len(rules) :
                                          rules[i].name = f])
  IN [form EXCEPT
        !.marks = [f \in DOMAIN @ |->
                     IF f \in names THEN errorOf(f) # "" ELSE @[f]],
        !.messages = [f \in DOMAIN @ |->
                        IF f \in names /\ FormMarkup(form.id).errorElements
                          THEN errorOf(f) ELSE @[f]]]

formTabVars == <<now, users, nextUserId, storage, currentUser, phase,
                 initSession, authOp, hash, currentRoute, view, pending>>

\* showEditProfileModal: the profile form with the current user's values
ShowEditProfileModal ==
  /\ phase = "ready"
  /\ currentUser # Null
  /\ form = Null
  /\ form' = FormOf("edit-profile-form", currentUser)
  /\ submitLog' = NoSubmit
  /\ UNCHANGED <<formOp, formSent>>
  /\ UNCHANGED formTabVars
  /\ lastAuth' = NoAuth
  /\ last' = NoDispatch
  /\ UNCHANGED <<regVars, setupVars>>

\* showEditUserModal(userId) of the administration, after its getUser
\* answered: the user form with that user's values
ShowEditUserModal(userId) ==
  /\ phase = "ready"
  /\ currentUser # Null
  /\ currentUser.role = "admin"
  /\ form = Null
  /\ UserIndex(users, userId) # 0
  /\ form' = FormOf("edit-user-form", users[UserIndex(users, userId)])
  /\ submitLog' = NoSubmit
  /\ UNCHANGED <<formOp, formSent>>
  /\ UNCHANGED formTabVars
  /\ lastAuth' = NoAuth
  /\ last' = NoDispatch
  /\ UNCHANGED <<regVars, setupVars>>

\* what the user types: a field and its new value
FormInputs ==
  {<<"firstName", <<>>>>, <<"firstName", <<"Z", "o">>>>,
   <<"lastName", <<" ", "Z", "o">>>>,
   <<"email", TBadMail>>,
   <<"password", TShortPw>>, <<"password", <<>>>>}

\* the 'input' listener: the value changes, the field's error mark and
\* message are cleared
Input(field, value) ==
  /\ form # Null
  /\ field \in DOMAIN form.values
  /\ form' = [form EXCEPT !.values[field] = value, !.marks[field] = FALSE,
                          !.messages[field] = ""]
  /\ submitLog' = NoSubmit
  /\ UNCHANGED <<formOp, formSent>>
  /\ UNCHANGED formTabVars
  /\ lastAuth' = NoAuth
  /\ last' = NoDispatch
  /\ UNCHANGED <<regVars, setupVars>>

\* the 'blur' listener: validateField on the field left
Blur(field) ==
  /\ form # Null
  /\ field \in DOMAIN form.values
  /\ form' = Validated({field})
  /\ submitLog' = NoSubmit
  /\ UNCHANGED <<formOp, formSent>>
  /\ UNCHANGED formTabVars
  /\ lastAuth' = NoAuth
  /\ last' = NoDispatch
  /\ UNCHANGED <<regVars, setupVars>>

\* A click on the submit button.  The browser validates the inputs and, if
\* they pass, fires 'submit': the listener of setupFormValidation runs
\* first (every ruled field validated; preventDefault and a toast when one
\* is invalid), then the form's own listener, registered after it:
\* preventDefault, the entries of the form without an empty password, and
\* the update call (updateProfile throws when nobody is logged in).
Submit ==
  /\ form # Null
  /\ formOp = Null
  /\ formSent < MaxSubmits
  /\ IF ~NativeValid(form.id, form.values)
       THEN /\ submitLog' = [NoSubmit EXCEPT !.blocked = TRUE]
            /\ UNCHANGED <<form, formOp, formSent>>
       ELSE LET checked == Validated(DOMAIN form.values)
                invalid == {f \in DOMAIN form.values : checked.marks[f]}
                data == [f \in {g \in DOMAIN form.values :
                                  g = "password" => form.values[g] # <<>>}
                           |-> form.values[f]]
                api == IF form.id = "edit-user-form" THEN "updateUser"
                       ELSE "updateProfile"
                refused == api = "updateProfile" /\ currentUser = Null
                call == [api |-> api,
                         id |-> IF api = "updateUser" THEN form.user
                                ELSE currentUser.id,
                         data |-> data]
            IN /\ form' = checked
               /\ formOp' = IF refused THEN Null ELSE call
               /\ formSent' = IF refused THEN formSent ELSE formSent + 1
               /\ submitLog' =
                    [fired |-> TRUE, blocked |-> FALSE, invalid |-> invalid,
                     prevented |-> IF invalid = {} THEN 1 ELSE 2,
                     toasts |-> (IF invalid = {} THEN <<>> ELSE <<"fix-errors">>)
                                \o (IF refused THEN <<"not-authenticated">>
                                    ELSE <<>>),
                     calls |-> IF refused THEN <<>> ELSE <<call>>]
  /\ UNCHANGED formTabVars
  /\ lastAuth' = NoAuth
  /\ last' = NoDispatch
  /\ UNCHANGED <<regVars, setupVars>>

\* The PATCH of /users/:id a submit handler awaits is answered.  On success
\* the server has merged the data into the record; updateProfile also
\* merges the record into the current user and the persisted session
\* (throwing when the session record is gone); the handler then shows its
\* toast, hides the modal and calls router.refresh().  On failure it shows the
\* error and the form stays.
FormAnswered(resp) ==
  /\ formOp # Null
  /\ formOp' = Null
  /\ phase = "ready"
  /\ resp = "ok" => UserIndex(users, formOp.id) # 0
  /\ resp = "notok" => UserIndex(users, formOp.id) = 0
  /\ UNCHANGED <<now, nextUserId, phase, initSession, authOp, formSent>>
  /\ IF resp # "ok"
       THEN /\ submitLog' = [NoSubmit EXCEPT !.toasts = <<"error">>]
            /\ UNCHANGED <<users, currentUser, storage, form>>
            /\ UNCHANGED routerVars
            /\ lastAuth' = IF formOp.api = "updateProfile"
                             THEN AuthResult("updateProfile",
                                     IF resp = "notok" THEN "update-failed"
                                     ELSE "network", <<>>)
                             ELSE NoAuth
            /\ last' = NoDispatch
       ELSE LET i == UserIndex(users, formOp.id)
                updatedUser == PatchedUser(users[i], formOp.data)
                merged == MergedUser(currentUser, updatedUser)
                profile == formOp.api = "updateProfile"
                thrown == profile /\ storage = Null
            IN /\ users' = [users EXCEPT ![i] = updatedUser]
               /\ currentUser' = IF profile THEN merged ELSE currentUser
               /\ storage' = IF profile /\ ~thrown
                               THEN saveSession([Parse(storage)
                                                   EXCEPT !.user = merged])
                               ELSE storage
               /\ lastAuth' = IF ~profile THEN NoAuth
                               ELSE IF thrown
                                 THEN AuthResult("updateProfile", "type-error",
                                                 <<>>)
                               ELSE AuthResult("updateProfile", "ok",
                                               Notified(merged))
               /\ IF thrown
                    THEN /\ submitLog' = [NoSubmit EXCEPT !.toasts = <<"error">>]
                         /\ UNCHANGED form
                         /\ UNCHANGED routerVars
                         /\ last' = NoDispatch
                    ELSE /\ submitLog' = [NoSubmit EXCEPT !.toasts = <<"success">>]
                         /\ form' = Null
                         /\ RouterBecomes("refresh", getCurrentPath(hash),
                                          currentUser',
                                          handleRoute(RouterNow, currentUser'))
  /\ UNCHANGED <<regVars, setupVars>>

\* A router of its own (no application): the routes registered with it,
\* as (path, handler) pairs, all public, and the paths dispatched
RouterInputs ==
  {<<"/events/:id", "showEvent">>, <<"/events/:id", "editEvent">>,
   <<"/events/new", "newEvent">>,
   <<"/events/:id/users/:uid", "showAttendee">>, <<"*", "notFound">>}
DispatchPaths == {"/events/42", "/events/new", "/events/42/users/7", "/nope"}

\* addRoute(path, handler): this.routes.set(path, route); a Map keeps the
\* place of a key that is set again
AddRoute(path, handler) ==
  LET route == addRoute(path, handler, FALSE, "")
      at == {i \in 1..Len(routes) : routes[i].originalPath = path}
  IN /\ at = {} => Len(routes) < MaxRoutes
     /\ routes' = IF at = {} THEN Append(routes, route)
                  ELSE [routes EXCEPT ![CHOOSE i \in at : TRUE] = route]
     /\ UNCHANGED authCallbacks
     /\ UNCHANGED authVars
     /\ UNCHANGED routerVars
     /\ lastAuth' = NoAuth
     /\ last' = NoDispatch
     /\ UNCHANGED <<regVars, formVars>>

\* the browser moves to a path and handleRoute runs; the handlers of
\* `failing` throw (or return a promise that rejects) when invoked
Dispatch(path, failing) ==
  /\ RouterBecomes("popstate", path, currentUser,
                   handleRoute([RouterNow EXCEPT !.hash = path,
                                                 !.failing = failing],
                               currentUser))
  /\ UNCHANGED authVars
  /\ lastAuth' = NoAuth
  /\ UNCHANGED <<regVars, setupVars, formVars>>

\* the observers other code registers: one that throws, one that does not
ObserverPool == {"failing", "counting"}

\* onAuthStateChange(callback): authCallbacks.push(callback)
OnAuthStateChange(callback) ==
  /\ Len(authCallbacks) < MaxCallbacks
  /\ authCallbacks' = Append(authCallbacks, callback)
  /\ UNCHANGED routes
  /\ UNCHANGED authVars
  /\ UNCHANGED routerVars
  /\ lastAuth' = NoAuth
  /\ last' = NoDispatch
  /\ UNCHANGED <<regVars, formVars>>

Responses == {"ok", "notok", "neterr"}

\* One tab with its router, the two documented users logging in and out.
\* Every caller of navigate leaves `replace` at its default.
RouterCredentials ==
  {<<TAdmin, TAdminPw>>, <<TUser1, TUser1Pw>>, <<TUser1, TAdminPw>>}

Next ==
  \/ InitStart
  \/ \E resp \in Responses : InitValidated(resp)
  \/ Reload
  \/ \E cred \in RouterCredentials : LoginCall(cred[1], cred[2])
  \/ \E resp \in Responses : LoginResponse(resp)
  \/ Logout
  \/ \E path \in Paths : Navigate(path, FALSE)
  \/ \E path \in Paths : PopState(path)
  \/ Refresh
  \/ \E page \in pending, ok \in BOOLEAN : HandlerSettles(page, ok)

\* The AuthManager with every call of it, the clock and the server's users
NextAuth ==
  \/ Tick
  \/ InitStart
  \/ \E resp \in Responses : InitValidated(resp)
  \/ Reload
  \/ \E cred \in Credentials : LoginCall(cred[1], cred[2])
  \/ \E resp \in Responses : LoginResponse(resp)
  \/ \E userData \in RegisterInputs : RegisterCall(userData)
  \/ \E resp \in Responses : RegisterChecked(resp)
  \/ \E resp \in Responses : RegisterPosted(resp)
  \/ \E updateData \in ProfileUpdates : UpdateProfileCall(updateData)
  \/ \E resp \in Responses : UpdateProfileResponse(resp)
  \/ Logout
  \/ \E id \in DeletableUsers : ServerDeleteUser(id)

\* The AuthManager with its observers: init, login, logout, and observers
\* registered at any time
NextObs ==
  \/ InitStart
  \/ \E resp \in Responses : InitValidated(resp)
  \/ Reload
  \/ \E cred \in RouterCredentials : LoginCall(cred[1], cred[2])
  \/ \E resp \in Responses : LoginResponse(resp)
  \/ Logout
  \/ \E callback \in ObserverPool : OnAuthStateChange(callback)

\* The administrator's tab with the user and profile forms
NextForm ==
  \/ InitStart
  \/ LoginCall(TAdmin, TAdminPw)
  \/ \E resp \in Responses : LoginResponse(resp)
  \/ Logout
  \/ ShowEditProfileModal
  \/ \E userId \in DeletableUsers : ShowEditUserModal(userId)
  \/ \E input \in FormInputs : Input(input[1], input[2])
  \/ \E field \in {"email", "password"} : Blur(field)
  \/ Submit
  \/ \E resp \in Responses : FormAnswered(resp)

\* The sign-up page of one tab: register calls, with the documented users
\* logging in and out and the page reloaded between them
NextSignup ==
  \/ InitStart
  \/ \E resp \in Responses : InitValidated(resp)
  \/ Reload
  \/ \E cred \in RouterCredentials : LoginCall(cred[1], cred[2])
  \/ \E resp \in Responses : LoginResponse(resp)
  \/ \E userData \in RegisterInputs : RegisterCall(userData)
  \/ \E resp \in Responses : RegisterChecked(resp)
  \/ \E resp \in Responses : RegisterPosted(resp)
  \/ Logout

\* One tab where the administrator logs in, follows links and updates the
\* profile, and a second tab that logs out
NextTabs ==
  \/ InitStart
  \/ \E resp \in Responses : InitValidated(resp)
  \/ Reload
  \/ LoginCall(TAdmin, TAdminPw)
  \/ \E resp \in Responses : LoginResponse(resp)
  \/ UpdateProfileCall([firstName |-> TZed])
  \/ \E resp \in Responses : UpdateProfileResponse(resp)
  \/ Logout
  \/ OtherTabLogout
  \/ \E path \in Paths : Navigate(path, FALSE)
  \/ \E page \in pending, ok \in BOOLEAN : HandlerSettles(page, ok)

\* A router of its own: routes are registered and paths dispatched, with no
\* handler or one handler failing
NextRouter ==
  \/ \E input \in RouterInputs : AddRoute(input[1], input[2])
  \/ \E path \in DispatchPaths,
        failing \in {{}} \cup {{input[2]} : input \in RouterInputs} :
       Dispatch(path, failing)

(***************************************************************************)
(* ApiService.registerForEvent and cancelRegistration (JS/api.js 228-284)  *)
(* run by several clients against the server's /events and                 *)
(* /registrations.  A step is one request reaching the server with its     *)
(* response reaching the client, or the request failing without effect.    *)
(***************************************************************************)
MaxCapacity == 2    \* the event's capacity is 1..MaxCapacity

\* two clients (tabs)
Clients == {1, 2}
RegUsers == {1, 2}
EventIds == {1}

Idle == [pc |-> "idle"]

\* the server: GET /registrations?userId=..&eventId=.., in array order
RegistrationsOf(rows, userId, eventId) ==
  SelectSeq(rows, LAMBDA r : r.userId = userId /\ r.eventId = eventId)

\* the server: the rows of an event
RowsOfEvent(rows, eventId) == SelectSeq(rows, LAMBDA r : r.eventId = eventId)

\* a server with a uniqueness constraint on (userId, eventId)
InsertRow_UniquePair(rows, row) ==
  IF \E i \in 1..Len(rows) :
       rows[i].userId = row.userId /\ rows[i].eventId = row.eventId
    THEN rows
    ELSE Append(rows, row)

\* the server: POST /registrations appends the row
InsertRow(rows, row) == Append(rows, row)

\* the server: DELETE /registrations/:id
DeleteRow(rows, id) == SelectSeq(rows, LAMBDA r : r.id # id)

RowExists(rows, id) == \E i \in 1..Len(rows) : rows[i].id = id

\* the duplicate check with > 1 for > 0
AlreadyRegistered_MoreThanOne(existingRegistrations) ==
  Len(existingRegistrations) > 1

\* registerForEvent: existingRegistrations.length > 0
AlreadyRegistered(existingRegistrations) == Len(existingRegistrations) > 0

\* the capacity check with > for >=
EventFull_OffByOne(event) == event.registeredCount > event.capacity

\* registerForEvent: event.registeredCount >= event.capacity
EventFull(event) == event.registeredCount >= event.capacity

\* registerForEvent leaving the count as it read it
CountAfterRegister_Unchanged(event) == event.registeredCount

\* registerForEvent: registeredCount: event.registeredCount + 1
CountAfterRegister(event) == event.registeredCount + 1

\* the count after a cancel without Math.max(0, ...)
CountAfterCancel_NoClamp(event) == event.registeredCount - 1

\* cancelRegistration: Math.max(0, event.registeredCount - 1)
CountAfterCancel(event) ==
  IF event.registeredCount - 1 > 0 THEN event.registeredCount - 1 ELSE 0

\* the registration object with userId and eventId taken for one another
NewRegistration_Swapped(id, userId, eventId) ==
  [id |-> id, userId |-> eventId, eventId |-> userId]

\* registerForEvent: the registration object posted
NewRegistration(id, userId, eventId) ==
  [id |-> id, userId |-> userId, eventId |-> eventId]

\* id: Date.now(): an id no row has and no call in flight holds (the id
\* is first seen by anyone when the POST is served)
HeldIds ==
  {clients[c].registration.id :
     c \in {d \in Clients : "registration" \in DOMAIN clients[d]}}
FreshRegId ==
  LET used == {regs[i].id : i \in 1..Len(regs)} \cup HeldIds
  IN CHOOSE n \in 1..(Cardinality(used) + 1) : n \notin used

NoCall == [client |-> 0, op |-> "none", userId |-> 0, eventId |-> 0,
           outcome |-> "none", read |-> -1]

\* no call is in flight
AllIdle == \A c \in Clients : clients[c].pc = "idle"

\* a call ends: its client is idle again; the step's log tells the call,
\* its outcome and the registeredCount the call had read (-1 for none)
Ends(c, outcome) ==
  /\ clients' = [clients EXCEPT ![c] = Idle]
  /\ regLog' = [client |-> c, op |-> clients[c].op,
                userId |-> clients[c].userId, eventId |-> clients[c].eventId,
                outcome |-> outcome,
                read |-> IF "event" \in DOMAIN clients[c]
                           THEN clients[c].event.registeredCount ELSE -1]

\* registerForEvent(userId, eventId) is called: GET existing registrations
RegisterForEvent(c, userId, eventId) ==
  /\ clients[c].pc = "idle"
  /\ clients' = [clients EXCEPT ![c] =
       [pc |-> "reg-check", op |-> "register",
        userId |-> userId, eventId |-> eventId]]
  /\ regLog' = IF AllIdle THEN regLog ELSE NoCall
  /\ UNCHANGED <<events, regs>>
  /\ UNCHANGED <<tabVars, setupVars>>

\* the existing registrations arrive: the duplicate check, then GET event
RegChecked(c, ok) ==
  /\ clients[c].pc = "reg-check"
  /\ IF ~ok THEN Ends(c, "request-failed")
     ELSE IF AlreadyRegistered(
               RegistrationsOf(regs, clients[c].userId, clients[c].eventId))
       THEN Ends(c, "already-registered")
     ELSE /\ clients' = [clients EXCEPT ![c].pc = "reg-event"]
          /\ regLog' = NoCall
  /\ UNCHANGED <<events, regs>>
  /\ UNCHANGED <<tabVars, setupVars>>

\* the event arrives: the capacity check, then POST the registration
RegEventRead(c, ok) ==
  /\ clients[c].pc = "reg-event"
  /\ IF ~ok THEN Ends(c, "request-failed")
     ELSE IF EventFull(events[clients[c].eventId])
       THEN Ends(c, "event-full")
     ELSE /\ clients' = [clients EXCEPT ![c] =
               [pc |-> "reg-post", op |-> "register",
                userId |-> clients[c].userId, eventId |-> clients[c].eventId,
                event |-> events[clients[c].eventId]]]
          /\ regLog' = NoCall
  /\ UNCHANGED <<events, regs>>
  /\ UNCHANGED <<tabVars, setupVars>>

\* the POST is answered: the row exists; then PATCH the event's count
RegPosted(c, ok) ==
  /\ clients[c].pc = "reg-post"
  /\ IF ~ok THEN Ends(c, "request-failed") /\ UNCHANGED regs
     ELSE /\ regs' = InsertRow(regs, NewRegistration(FreshRegId,
                                       clients[c].userId, clients[c].eventId))
          /\ clients' = [clients EXCEPT ![c].pc = "reg-patch"]
          /\ regLog' = NoCall
  /\ UNCHANGED events
  /\ UNCHANGED <<tabVars, setupVars>>

\* registerForEvent taking its row back when the count update fails
RegPatched_RollsBack(c, ok) ==
  /\ clients[c].pc = "reg-patch"
  /\ IF ~ok
       THEN /\ Ends(c, "count-update-failed")
            /\ regs' = SelectSeq(regs, LAMBDA r :
                          ~(r.userId = clients[c].userId
                            /\ r.eventId = clients[c].eventId))
            /\ UNCHANGED events
       ELSE /\ events' = [events EXCEPT ![clients[c].eventId].registeredCount =
                            CountAfterRegister(clients[c].event)]
            /\ Ends(c, "ok")
            /\ UNCHANGED regs
  /\ UNCHANGED <<tabVars, setupVars>>

\* the PATCH is answered: registerForEvent returns the new registration
RegPatched(c, ok) ==
  /\ clients[c].pc = "reg-patch"
  /\ IF ~ok THEN Ends(c, "count-update-failed") /\ UNCHANGED events
     ELSE /\ events' = [events EXCEPT ![clients[c].eventId].registeredCount =
                          CountAfterRegister(clients[c].event)]
          /\ Ends(c, "ok")
  /\ UNCHANGED regs
  /\ UNCHANGED <<tabVars, setupVars>>

\* cancelRegistration(userId, eventId) is called: GET the registrations
CancelRegistration(c, userId, eventId) ==
  /\ clients[c].pc = "idle"
  /\ clients' = [clients EXCEPT ![c] =
       [pc |-> "cancel-find", op |-> "cancel",
        userId |-> userId, eventId |-> eventId]]
  /\ regLog' = IF AllIdle THEN regLog ELSE NoCall
  /\ UNCHANGED <<events, regs>>
  /\ UNCHANGED <<tabVars, setupVars>>

\* the registrations arrive: the first is the one to delete
CancelFound(c, ok) ==
  /\ clients[c].pc = "cancel-find"
  /\ LET registrations ==
           RegistrationsOf(regs, clients[c].userId, clients[c].eventId)
     IN IF ~ok THEN Ends(c, "request-failed")
        ELSE IF Len(registrations) = 0 THEN Ends(c, "not-found")
        ELSE /\ clients' = [clients EXCEPT ![c] =
                  [pc |-> "cancel-delete", op |-> "cancel",
                   userId |-> clients[c].userId,
                   eventId |-> clients[c].eventId,
                   registration |-> registrations[1]]]
             /\ regLog' = NoCall
  /\ UNCHANGED <<events, regs>>
  /\ UNCHANGED <<tabVars, setupVars>>

\* the DELETE is answered (404 when the row is gone); then GET the event
CancelDeleted(c, ok) ==
  /\ clients[c].pc = "cancel-delete"
  /\ IF ~ok \/ ~RowExists(regs, clients[c].registration.id)
       THEN Ends(c, "request-failed") /\ UNCHANGED regs
       ELSE /\ regs' = DeleteRow(regs, clients[c].registration.id)
            /\ clients' = [clients EXCEPT ![c] =
                 [pc |-> "cancel-event", op |-> "cancel",
                  userId |-> clients[c].userId,
                  eventId |-> clients[c].eventId]]
            /\ regLog' = NoCall
  /\ UNCHANGED events
  /\ UNCHANGED <<tabVars, setupVars>>

\* the event arrives; then PATCH its count
CancelEventRead(c, ok) ==
  /\ clients[c].pc = "cancel-event"
  /\ IF ~ok THEN Ends(c, "count-update-failed")
     ELSE /\ clients' = [clients EXCEPT ![c] =
               [pc |-> "cancel-patch", op |-> "cancel",
                userId |-> clients[c].userId, eventId |-> clients[c].eventId,
                event |-> events[clients[c].eventId]]]
          /\ regLog' = NoCall
  /\ UNCHANGED <<events, regs>>
  /\ UNCHANGED <<tabVars, setupVars>>

\* the PATCH is answered: cancelRegistration returns { success: true }
CancelPatched(c, ok) ==
  /\ clients[c].pc = "cancel-patch"
  /\ IF ~ok THEN Ends(c, "count-update-failed") /\ UNCHANGED events
     ELSE /\ events' = [events EXCEPT ![clients[c].eventId].registeredCount =
                          CountAfterCancel(clients[c].event)]
          /\ Ends(c, "ok")
  /\ UNCHANGED regs
  /\ UNCHANGED <<tabVars, setupVars>>

\* a new event (createEvent sets registeredCount: 0) and no registration
InitReg ==
  /\ \E capacity \in 1..MaxCapacity :
       events = [e \in EventIds |->
                   [capacity |-> capacity, registeredCount |-> 0]]
  /\ regs = <<>>
  /\ clients = [c \in Clients |-> Idle]
  /\ regLog = NoCall

\* any interleaving of the clients' calls, any request may fail
NextReg ==
  \/ \E c \in Clients, userId \in RegUsers, eventId \in EventIds :
       RegisterForEvent(c, userId, eventId)
  \/ \E c \in Clients, ok \in BOOLEAN : RegChecked(c, ok)
  \/ \E c \in Clients, ok \in BOOLEAN : RegEventRead(c, ok)
  \/ \E c \in Clients, ok \in BOOLEAN : RegPosted(c, ok)
  \/ \E c \in Clients, ok \in BOOLEAN : RegPatched(c, ok)
  \/ \E c \in Clients, userId \in RegUsers, eventId \in EventIds :
       CancelRegistration(c, userId, eventId)
  \/ \E c \in Clients, ok \in BOOLEAN : CancelFound(c, ok)
  \/ \E c \in Clients, ok \in BOOLEAN : CancelDeleted(c, ok)
  \/ \E c \in Clients, ok \in BOOLEAN : CancelEventRead(c, ok)
  \/ \E c \in Clients, ok \in BOOLEAN : CancelPatched(c, ok)

\* one call at a time, every request answered
NextSeq ==
  \/ \E c \in Clients, userId \in RegUsers, eventId \in EventIds :
       AllIdle /\ RegisterForEvent(c, userId, eventId)
  \/ \E c \in Clients : RegChecked(c, TRUE)
  \/ \E c \in Clients : RegEventRead(c, TRUE)
  \/ \E c \in Clients : RegPosted(c, TRUE)
  \/ \E c \in Clients : RegPatched(c, TRUE)
  \/ \E c \in Clients, userId \in RegUsers, eventId \in EventIds :
       AllIdle /\ CancelRegistration(c, userId, eventId)
  \/ \E c \in Clients : CancelFound(c, TRUE)
  \/ \E c \in Clients : CancelDeleted(c, TRUE)
  \/ \E c \in Clients : CancelEventRead(c, TRUE)
  \/ \E c \in Clients : CancelPatched(c, TRUE)

\* one call at a time, any request may fail
NextFail ==
  \/ \E c \in Clients, userId \in RegUsers, eventId \in EventIds :
       AllIdle /\ RegisterForEvent(c, userId, eventId)
  \/ \E c \in Clients, ok \in BOOLEAN : RegChecked(c, ok)
  \/ \E c \in Clients, ok \in BOOLEAN : RegEventRead(c, ok)
  \/ \E c \in Clients, ok \in BOOLEAN : RegPosted(c, ok)
  \/ \E c \in Clients, ok \in BOOLEAN : RegPatched(c, ok)
  \/ \E c \in Clients, userId \in RegUsers, eventId \in EventIds :
       AllIdle /\ CancelRegistration(c, userId, eventId)
  \/ \E c \in Clients, ok \in BOOLEAN : CancelFound(c, ok)
  \/ \E c \in Clients, ok \in BOOLEAN : CancelDeleted(c, ok)
  \/ \E c \in Clients, ok \in BOOLEAN : CancelEventRead(c, ok)
  \/ \E c \in Clients, ok \in BOOLEAN : CancelPatched(c, ok)

\* the clients only register, in any interleaving
NextRace ==
  \/ \E c \in Clients, userId \in RegUsers, eventId \in EventIds :
       RegisterForEvent(c, userId, eventId)
  \/ \E c \in Clients, ok \in BOOLEAN : RegChecked(c, ok)
  \/ \E c \in Clients, ok \in BOOLEAN : RegEventRead(c, ok)
  \/ \E c \in Clients, ok \in BOOLEAN : RegPosted(c, ok)
  \/ \E c \in Clients, ok \in BOOLEAN : RegPatched(c, ok)

\* the tab's specifications leave the registration part alone
RegAtRest ==
  /\ events = [e \in EventIds |-> [capacity |-> 1, registeredCount |-> 0]]
  /\ regs = <<>>
  /\ clients = [c \in Clients |-> Idle]
  /\ regLog = NoCall

Init == InitTab /\ RegAtRest /\ AppSetup

Spec == Init /\ [][Next]_vars

SpecAuth == Init /\ [][NextAuth]_vars

SpecForm == Init /\ [][NextForm]_vars

SpecSignup == Init /\ [][NextSignup]_vars

SpecTabs == Init /\ [][NextTabs]_vars

SpecObs == Init /\ [][NextObs]_vars

\* a new Router: no route, no observer
InitRouter ==
  /\ InitTab
  /\ RegAtRest
  /\ routes = <<>>
  /\ authCallbacks = <<>>

SpecRouter == InitRouter /\ [][NextRouter]_vars

\* the tab at rest, an event of any capacity
InitCalls == InitTab /\ InitReg /\ AppSetup

SpecReg == InitCalls /\ [][NextReg]_vars

SpecSeq == InitCalls /\ [][NextSeq]_vars

SpecRace == InitCalls /\ [][NextRace]_vars

SpecFail == InitCalls /\ [][NextFail]_vars

(***************************************************************************)
(* Properties.                                                             *)
(***************************************************************************)
\* the route a path resolves to (0 for none), and the paths of the table
RouteOfPath(path) == findMatchingRoute(Routes, path)
RequiresAuthPath(path) ==
  RouteOfPath(path) # 0 /\ Routes[RouteOfPath(path)].requiresAuth
AdminPaths == {"/admin", "/admin/events", "/admin/users"}
AuthGuardsFail(user) ==
  \A i \in 1..Len(Routes) :
    Routes[i].requiresAuth => AuthGuardFails(Routes[i], user)
StoredSession == Parse(storage)
PastExpiry == storage # Null /\ now > ParseDate(StoredSession.expiresAt)

\* C1: every dispatch (start, navigate, popstate, refresh) of a path whose
\* route has requiresAuth = true, made while getCurrentUser() is null, ends
\* at /login: the hash is /login, the only handler invoked is the login
\* page's (not the route's own), the login view is rendered and the
\* access-denied view is not, also for routes that require a role.
C1_LoggedOutRedirectsToLogin ==
  [][ (last'.op # "none" /\ last'.user = Null /\ RequiresAuthPath(last'.path))
        => /\ hash' = "/login"
           /\ last'.invoked = <<"renderLogin">>
           /\ Routes[RouteOfPath(last'.path)].handler # "renderLogin"
           /\ ~last'.denied
           /\ view' = "login"
           /\ last'.redirects = 1 ]_vars

\* C1 witness: a logged-out tab was sent back to /admin/users (a route with
\* a required role) and ended on the login page.
C1_Witness ==
  /\ last.op = "popstate"
  /\ last.path = "/admin/users"
  /\ last.user = Null
  /\ hash = "/login"
  /\ view = "login"

\* C2: every dispatch of /admin, /admin/events or /admin/users made while a
\* user whose role is not 'admin' is logged in renders the access-denied
\* view, invokes no handler, leaves currentRoute and the path as they are
\* (the hash is the dispatched path) and makes no redirect: no history
\* entry is pushed besides the one of the navigate call being dispatched.
C2_NonAdminSeesAccessDenied ==
  [][ (/\ last'.op # "none"
       /\ last'.user # Null
       /\ last'.user.role # "admin"
       /\ last'.path \in AdminPaths)
        => /\ view' = "denied"
           /\ last'.denied
           /\ last'.invoked = <<>>
           /\ hash' = last'.path
           /\ currentRoute' = currentRoute
           /\ last'.redirects = 0
           /\ last'.pushed = (IF last'.op = "navigate" THEN 1 ELSE 0) ]_vars

\* C2 witness: the regular user navigated to /admin/events and sees the
\* access-denied view there.
C2_Witness ==
  /\ last.op = "navigate"
  /\ last.path = "/admin/events"
  /\ last.user # Null
  /\ last.user.role = "user"
  /\ view = "denied"
  /\ hash = "/admin/events"

\* C3 as stated: in every state in which the clock is past the persisted
\* session's expiresAt, getCurrentUser() is null and the authentication
\* guards fail (also in a tab that stayed open since the login).
C3_ExpiredMeansLoggedOut ==
  PastExpiry => (currentUser = Null /\ AuthGuardsFail(currentUser))

\* C3 amended: the expiry is enforced when the tab starts: an init() that
\* finds the clock past the persisted session's expiresAt ends at once, with
\* no request, with getCurrentUser() null and the authentication guards
\* failing.
C3_ExpiredAtStartupMeansLoggedOut ==
  [][ (phase = "boot" /\ PastExpiry /\ phase' # "boot")
        => /\ phase' = "ready"
           /\ currentUser' = Null
           /\ AuthGuardsFail(currentUser')
           /\ lastAuth'.notified = <<Null>> ]_vars

\* C3 witness: an init() found the session expired and left the tab logged
\* out.
C3_Witness ==
  /\ lastAuth.op = "init"
  /\ lastAuth.outcome = "expired"
  /\ currentUser = Null
  /\ phase = "ready"

\* C4: an init() that finds the persisted session expired, or whose user
\* lookup is answered with a non-OK response, ends with getCurrentUser()
\* null and the session record removed from storage.
C4_InvalidSessionCleared ==
  [][ /\ (phase = "boot" /\ PastExpiry /\ phase' # "boot")
          => (phase' = "ready" /\ currentUser' = Null /\ storage' = Null)
      /\ (lastAuth'.op = "init" /\ lastAuth'.outcome = "lookup-notok")
          => (/\ phase = "validating"
              /\ phase' = "ready"
              /\ currentUser' = Null
              /\ storage' = Null) ]_vars

\* C4 witness: the session's user was deleted on the server; init() got the
\* non-OK answer and cleared the session.
C4_Witness ==
  /\ lastAuth.op = "init"
  /\ lastAuth.outcome = "lookup-notok"
  /\ currentUser = Null
  /\ storage = Null

\* C5: an init() with an unexpired persisted session whose user lookup
\* throws (network error) keeps the session: getCurrentUser() is the stored
\* session's user and the storage record is unchanged.
C5_NetworkErrorKeepsSession ==
  [][ (lastAuth'.op = "init" /\ lastAuth'.outcome = "lookup-neterr")
        => /\ storage # Null
           /\ storage' = storage
           /\ currentUser' = StoredSession.user
           /\ phase' = "ready" ]_vars

\* C5 witness: the lookup threw and the session was kept, here for a user
\* the server no longer has.
C5_Witness ==
  /\ lastAuth.op = "init"
  /\ lastAuth.outcome = "lookup-neterr"
  /\ storage # Null
  /\ currentUser = StoredSession.user
  /\ UserIndex(users, currentUser.id) = 0

\* C6: neither the in-memory current user nor the persisted session's user
\* has a password field, after any sequence of login, register,
\* updateProfile, init and logout.
C6_NoPasswordInSession ==
  /\ currentUser # Null => "password" \notin DOMAIN currentUser
  /\ storage # Null => "password" \notin DOMAIN StoredSession.user

\* C7: capacity boundary of registerForEvent, for a call that passed the
\* duplicate check and whose requests are answered: reading
\* registeredCount = capacity it rejects with event-full and writes neither
\* a row nor a count; having read registeredCount = capacity - 1 its POST
\* adds exactly one row, for its user and event, and its PATCH sets
\* registeredCount to capacity.
C7_CapacityBoundary ==
  [][ \A c \in Clients :
        /\ (/\ clients[c].pc = "reg-event"
            /\ clients'[c].pc # "reg-event"
            /\ regLog'.outcome # "request-failed"
            /\ events[clients[c].eventId].registeredCount
                 = events[clients[c].eventId].capacity)
             => (/\ regLog'.client = c
                 /\ regLog'.outcome = "event-full"
                 /\ regs' = regs
                 /\ events' = events)
        /\ (/\ clients[c].pc = "reg-event"
            /\ clients'[c].pc # "reg-event"
            /\ regLog'.outcome # "request-failed"
            /\ events[clients[c].eventId].registeredCount
                 = events[clients[c].eventId].capacity - 1)
             => clients'[c].pc = "reg-post"
        /\ (/\ clients[c].pc = "reg-post"
            /\ clients'[c].pc = "reg-patch"
            /\ clients[c].event.registeredCount
                 = clients[c].event.capacity - 1)
             => (/\ Len(regs') = Len(regs) + 1
                 /\ SubSeq(regs', 1, Len(regs)) = regs
                 /\ regs'[Len(regs')].userId = clients[c].userId
                 /\ regs'[Len(regs')].eventId = clients[c].eventId
                 /\ events' = events)
        /\ (/\ clients[c].pc = "reg-patch"
            /\ regLog'.client = c
            /\ regLog'.outcome = "ok"
            /\ clients[c].event.registeredCount
                 = clients[c].event.capacity - 1)
             => (/\ events'[clients[c].eventId].registeredCount
                      = events[clients[c].eventId].capacity
                 /\ regs' = regs) ]_vars

\* C7 witness: a registerForEvent that had read registeredCount =
\* capacity - 1 returned, and registeredCount is the capacity.
C7_Witness ==
  /\ regLog.op = "register"
  /\ regLog.outcome = "ok"
  /\ regLog.read = events[regLog.eventId].capacity - 1
  /\ events[regLog.eventId].registeredCount = events[regLog.eventId].capacity

\* C8: one call at a time: when registerForEvent(u, e) is called right
\* after a registerForEvent(u, e) that succeeded, it rejects with the
\* duplicate-registration error at its first check, creating no row and
\* leaving registeredCount unchanged.
C8_SecondRegisterRejected ==
  [][ \A c \in Clients :
        (/\ clients[c].pc = "reg-check"
         /\ clients'[c].pc # "reg-check"
         /\ regLog.op = "register"
         /\ regLog.outcome = "ok"
         /\ regLog.userId = clients[c].userId
         /\ regLog.eventId = clients[c].eventId)
          => (/\ regLog'.client = c
              /\ regLog'.outcome = "already-registered"
              /\ regs' = regs
              /\ events' = events) ]_vars

\* C8 witness: a registerForEvent was rejected as a duplicate; the pair has
\* its single row and the count is the number of rows.
C8_Witness ==
  /\ regLog.op = "register"
  /\ regLog.outcome = "already-registered"
  /\ Len(RegistrationsOf(regs, regLog.userId, regLog.eventId)) = 1
  /\ events[regLog.eventId].registeredCount
       = Len(RowsOfEvent(regs, regLog.eventId))

\* C9: for every event 0 <= registeredCount <= capacity, in every state of
\* every interleaving of registerForEvent and cancelRegistration calls
\* (requests may fail), the capacity never edited.
C9_CountWithinCapacity ==
  \A e \in EventIds :
    /\ events[e].registeredCount >= 0
    /\ events[e].registeredCount <= events[e].capacity

\* C9 witness: no call is in flight, registeredCount is the capacity while
\* the event has more rows than its capacity.
C9_Witness ==
  \E e \in EventIds :
    /\ AllIdle
    /\ events[e].registeredCount = events[e].capacity
    /\ Len(RowsOfEvent(regs, e)) > events[e].capacity

\* a client whose registerForEvent read the event with one free seat and
\* has created its row
PostedOnLastSeat(c, e) ==
  /\ clients[c].pc = "reg-patch"
  /\ clients[c].eventId = e
  /\ clients[c].event.registeredCount = clients[c].event.capacity - 1

\* C10: when two clients registering different users for an event both
\* passed the capacity check on the same last free seat and both created
\* their rows, the event has more rows than its capacity.
C10_BothPassLastSeat ==
  \A e \in EventIds : \A c1, c2 \in Clients :
    (/\ c1 # c2
     /\ clients[c1].pc = "reg-patch" /\ clients[c2].pc = "reg-patch"
     /\ clients[c1].userId # clients[c2].userId
     /\ PostedOnLastSeat(c1, e)
     /\ PostedOnLastSeat(c2, e))
      => Len(RowsOfEvent(regs, e)) > events[e].capacity

\* C10 witness: both clients passed the check on the last free seat and
\* both rows are written.
C10_Witness ==
  \E e \in EventIds :
    /\ clients[1].pc = "reg-patch" /\ clients[2].pc = "reg-patch"
    /\ clients[1].userId # clients[2].userId
    /\ PostedOnLastSeat(1, e)
    /\ PostedOnLastSeat(2, e)
    /\ Len(RowsOfEvent(regs, e)) = events[e].capacity + 1

\* C11: when two overlapping registerForEvent calls for the same
\* (userId, eventId) pair have both passed the duplicate check and both had
\* their POST served, the server holds two rows for the pair: nothing else
\* refuses the second row.
C11_BothPassDuplicateCheck ==
  \A c1, c2 \in Clients :
    (/\ c1 # c2
     /\ clients[c1].pc = "reg-patch"
     /\ clients[c2].pc = "reg-patch"
     /\ clients[c1].userId = clients[c2].userId
     /\ clients[c1].eventId = clients[c2].eventId)
      => Len(RegistrationsOf(regs, clients[c1].userId, clients[c1].eventId))
           >= 2

\* C11 witness: both calls have returned and the pair is left with two
\* rows.
C11_Witness ==
  /\ AllIdle
  /\ regLog.op = "register"
  /\ regLog.outcome = "ok"
  /\ Len(RegistrationsOf(regs, regLog.userId, regLog.eventId)) = 2

\* C12: one call at a time.  When the registeredCount update of
\* registerForEvent fails after its row was created, or the one of
\* cancelRegistration (its read of the event or its PATCH) fails after the
\* row was deleted, the call rejects and writes nothing more: the created
\* row stays (the deleted row stays deleted), registeredCount stays, and if
\* registeredCount was the number of the event's rows before the row change
\* it is not afterwards.
C12_NoCompensation ==
  [][ \A c \in Clients :
        (/\ clients[c].pc \in {"reg-patch", "cancel-event", "cancel-patch"}
         /\ regLog'.client = c
         /\ regLog'.outcome = "count-update-failed")
          => LET e == clients[c].eventId
                 rows == Len(RowsOfEvent(regs, e))
                 own == Len(RegistrationsOf(regs', clients[c].userId, e))
                 before == IF clients[c].op = "register"
                             THEN rows - 1 ELSE rows + 1
             IN /\ clients'[c].pc = "idle"
                /\ regs' = regs
                /\ events' = events
                /\ own = (IF clients[c].op = "register" THEN 1 ELSE 0)
                /\ events[e].registeredCount = before
                     => Len(RowsOfEvent(regs', e))
                          # events'[e].registeredCount ]_vars

\* C12 witness: a registerForEvent rejected after its row was created; no
\* call is in flight and the event has a row more than its count.
C12_Witness ==
  /\ AllIdle
  /\ regLog.op = "register"
  /\ regLog.outcome = "count-update-failed"
  /\ Len(RowsOfEvent(regs, regLog.eventId))
       = events[regLog.eventId].registeredCount + 1

\* no stored user has the identifier as user name or e-mail together with
\* the password
NoStoredMatch(identifier, password) ==
  \A i \in 1..Len(users) :
    ~(/\ users[i].username = identifier \/ users[i].email = identifier
      /\ users[i].password = password)

\* C13: a login (non-empty identifier and password, the user list fetched)
\* for which no stored user has the identifier as user name or e-mail and
\* the given password rejects with the invalid-credentials error, notifies
\* nobody and leaves currentUser and the persisted session as they were.
C13_FailedLoginChangesNothing ==
  [][ (/\ authOp # Null
       /\ authOp.kind = "login"
       /\ authOp' = Null
       /\ lastAuth'.op \in {"login", "register"}
       /\ lastAuth'.outcome \notin {"auth-server", "network"}
       /\ NoStoredMatch(authOp.identifier, authOp.password))
        => /\ lastAuth'.outcome = "invalid-credentials"
           /\ lastAuth'.notified = <<>>
           /\ currentUser' = currentUser
           /\ storage' = storage ]_vars

\* C13 witness: a logged-in user's login attempt was rejected for its
\* credentials and the user is still logged in, the session still stored.
C13_Witness ==
  /\ lastAuth.op = "login"
  /\ lastAuth.outcome = "invalid-credentials"
  /\ currentUser # Null
  /\ storage # Null
  /\ StoredSession.user = currentUser

\* the stored user a login's credentials belong to has the role 'admin'
StoredAdminMatch(identifier, password) ==
  \E i \in 1..Len(users) :
    /\ users[i].username = identifier \/ users[i].email = identifier
    /\ users[i].password = password
    /\ users[i].role = "admin"

\* C14: a login that succeeds with the credentials of a stored user whose
\* role is 'admin' makes a user object with role 'admin' the current user
\* (the object login returns); and a navigation to /admin by a current user
\* with role 'admin' invokes the admin dashboard handler and nothing else:
\* no redirect, the access-denied view is not rendered, the path stays
\* /admin.
C14_AdminReachesDashboard ==
  [][ /\ (/\ authOp # Null
          /\ authOp.kind = "login"
          /\ lastAuth'.op = "login"
          /\ lastAuth'.outcome = "ok"
          /\ StoredAdminMatch(authOp.identifier, authOp.password))
           => (/\ currentUser' # Null
               /\ currentUser'.role = "admin"
               /\ lastAuth'.notified = <<currentUser'>>)
      /\ (/\ last'.op = "navigate"
          /\ last'.path = "/admin"
          /\ last'.user = currentUser
          /\ currentUser # Null
          /\ currentUser.role = "admin")
           => (/\ last'.invoked = <<"renderAdmin">>
               /\ last'.redirects = 0
               /\ ~last'.denied
               /\ hash' = "/admin"
               /\ currentRoute' # Null
               /\ currentRoute'.route = "/admin"
               /\ "admin" \in pending') ]_vars

\* C14 witness: the admin, logged in as 'admin', navigated to /admin and
\* the dashboard handler is running.
C14_Witness ==
  /\ last.op = "navigate"
  /\ last.path = "/admin"
  /\ last.invoked = <<"renderAdmin">>
  /\ currentUser # Null
  /\ currentUser.username = TAdmin
  /\ currentUser.role = "admin"
  /\ hash = "/admin"
  /\ "admin" \in pending

\* the calls a notification of every registered observer consists of: one
\* call per observer, in registration order, with the current user
EveryObserverCalled ==
  /\ Len(lastAuth.calls) = Len(authCallbacks)
  /\ \A i \in 1..Len(authCallbacks) :
       /\ lastAuth.calls[i].callback = authCallbacks[i]
       /\ lastAuth.calls[i].user = currentUser

\* the outcomes with which login rejects
LoginRejections == {"required", "invalid-credentials", "auth-server", "network"}

\* C15 as stated: on every outcome of login, logout and init the registered
\* observers are called, each once and in registration order, with the
\* resulting current user.
C15_EveryOutcomeNotifies ==
  lastAuth.op \in {"login", "logout", "init"} => EveryObserverCalled

\* C15 amended: on every successful login, every logout and every outcome of
\* init (also those leaving the user null) the registered observers are
\* called within the call, each once and in registration order, a throwing
\* observer included and not in the way of the later ones, with the
\* resulting current user; a login that rejects calls no observer.
C15_StateChangesNotify ==
  /\ (/\ lastAuth.op \in {"login", "logout", "init"}
      /\ lastAuth.outcome \notin LoginRejections)
       => EveryObserverCalled
  /\ (lastAuth.op = "login" /\ lastAuth.outcome \in LoginRejections)
       => lastAuth.calls = <<>>

\* C15 witness: init ended with no user; three observers, the second of
\* them throwing, were each called with null.
C15_Witness ==
  /\ lastAuth.op = "init"
  /\ currentUser = Null
  /\ Len(authCallbacks) = 3
  /\ Throws(authCallbacks[2])
  /\ Len(lastAuth.calls) = 3
  /\ lastAuth.calls[3].user = Null

\* the non-wildcard routes of the table whose pattern matches a path
MatchingRoutes(path) ==
  {i \in 1..Len(routes) :
     routes[i].originalPath # "*" /\ Matches(routes[i], path)}

\* C16: when a handler invoked by a dispatch throws or rejects, also the
\* wildcard not-found handler, the dispatch has rendered the generic error
\* view through handleRouteError, has invoked the handler once, and no error
\* has left handleRoute.
C16_HandlerErrorsCaught ==
  (/\ last.op # "none"
   /\ \E i \in 1..Len(last.invoked) : last.invoked[i] \in last.failing)
    => /\ view = "error"
       /\ last.errors = 1
       /\ ~last.escaped
       /\ Len(last.invoked) = 1

\* C17: a dispatch of a path that some non-wildcard routes match resolves
\* to the one of them that stands first in the router's insertion order and
\* invokes its handler, whatever routes come later.
C17_FirstMatchWins ==
  (last.op # "none" /\ MatchingRoutes(last.path) # {})
    => \E i \in MatchingRoutes(last.path) :
         /\ \A j \in MatchingRoutes(last.path) : i <= j
         /\ currentRoute # Null
         /\ currentRoute.route = routes[i].originalPath
         /\ last.invoked = <<routes[i].handler>>

\* C17 witness: /events/:id was registered before /events/new, and the
\* dispatch of /events/new resolved to /events/:id.
C17_Witness ==
  /\ last.op # "none"
  /\ last.path = "/events/new"
  /\ Len(routes) >= 2
  /\ routes[1].originalPath = "/events/:id"
  /\ routes[2].originalPath = "/events/new"
  /\ currentRoute.route = "/events/:id"
  /\ view = routes[1].handler

\* C18: a dispatch of a path no non-wildcard route matches invokes the
\* handler registered under '*' exactly once and no other handler; with no
\* '*' route it invokes no handler and renders nothing; either way
\* currentRoute stays as it was.
C18_NotFoundFallback ==
  [][ (last'.op # "none" /\ MatchingRoutes(last'.path) = {})
        => /\ currentRoute' = currentRoute
           /\ hash' = last'.path
           /\ IF \E i \in 1..Len(routes) : routes[i].originalPath = "*"
                THEN \E i \in 1..Len(routes) :
                       /\ routes[i].originalPath = "*"
                       /\ last'.invoked = <<routes[i].handler>>
                ELSE last'.invoked = <<>> /\ view' = view ]_vars

\* C18 witness: /nope matched no route, the '*' handler rendered, and the
\* route of an earlier dispatch is still the current one.
C18_Witness ==
  /\ last.path = "/nope"
  /\ last.invoked = <<"notFound">>
  /\ view = "notFound"
  /\ currentRoute # Null
  /\ currentRoute.path = "/events/42"

\* C19: after a dispatch that resolved to a route, currentRoute.params has
\* exactly the names of the route's ':name' segments, each bound to the
\* path's segment at the place of its ':name' (/events/:id and /events/42
\* give {id: "42"}); a route without ':name' segments gives the empty map.
C19_ParamsExtracted ==
  (last.op # "none" /\ MatchingRoutes(last.path) # {})
    => LET template == Segments(currentRoute.route)
           parts == Segments(currentRoute.path)
           named == {i \in 1..Len(template) : ParamName(template[i]) # ""}
       IN /\ currentRoute.path = last.path
          /\ IF named = {}
               THEN currentRoute.params = <<>>
               ELSE /\ DOMAIN currentRoute.params
                         = {ParamName(template[i]) : i \in named}
                    /\ \A i \in named :
                         currentRoute.params[ParamName(template[i])]
                           = parts[i]

\* C19 witness: /events/:id/users/:uid resolved /events/42/users/7 with
\* id "42" and uid "7".
C19_Witness ==
  /\ last.op # "none"
  /\ currentRoute # Null
  /\ currentRoute.route = "/events/:id/users/:uid"
  /\ currentRoute.path = "/events/42/users/7"
  /\ currentRoute.params = [id |-> "42", uid |-> "7"]

\* the page an application handler renders, at once or when its requests
\* are answered
PageOf(handler) ==
  CASE handler = "renderHome" -> "home"
    [] handler = "renderLogin" -> "login"
    [] handler = "renderRegister" -> "register"
    [] handler = "renderProfile" -> "profile"
    [] handler = "renderMyEvents" -> "my-events"
    [] handler = "renderEnrollment" -> "enrollment"
    [] handler = "renderAdmin" -> "admin"
    [] handler = "renderAdminEvents" -> "admin-events"
    [] handler = "renderAdminUsers" -> "admin-users"
    [] handler = "render404" -> "404"

\* the ways the dispatch of the last step ended, told from what it left
DispatchOutcomes ==
  LET r == RouteOfPath(last.path)
      user == last.user
      final == last.invoked[Len(last.invoked)]
      guarded == /\ Routes[r].requiresAuth => user # Null
                 /\ Routes[r].requiredRole # ""
                      => (user # Null /\ user.role = Routes[r].requiredRole)
      bounced == user # Null /\ last.path \in {"/login", "/register"}
  IN {o \in {"handled", "to-login", "denied", "not-found"} :
        CASE o = "not-found" ->
               /\ r = 0
               /\ last.invoked = <<"render404">>
               /\ last.redirects = 0 /\ ~last.denied
               /\ getCurrentPath(hash) = last.path /\ view = "404"
          [] o = "denied" ->
               /\ r # 0
               /\ last.denied /\ last.invoked = <<>>
               /\ last.redirects = 0
               /\ getCurrentPath(hash) = last.path /\ view = "denied"
          [] o = "to-login" ->
               /\ r # 0
               /\ Routes[r].requiresAuth /\ user = Null
               /\ last.redirects = 1 /\ ~last.denied
               /\ last.invoked = <<"renderLogin">>
               /\ hash = "/login" /\ view = "login"
          [] o = "handled" ->
               /\ r # 0
               /\ guarded
               /\ ~last.denied
               /\ last.invoked # <<>>
               /\ last.invoked[1] = Routes[r].handler
               /\ IF bounced
                    THEN /\ last.redirects = 1
                         /\ last.invoked = <<Routes[r].handler, "renderHome">>
                         /\ hash = "/"
                    ELSE /\ last.redirects = 0
                         /\ Len(last.invoked) = 1
                         /\ getCurrentPath(hash) = last.path
               /\ view = PageOf(final) \/ PageOf(final) \in pending}

\* C20: every dispatch (start, navigate, popstate, refresh) on the
\* application's routes comes to its end in exactly one of: a handler ran
\* (rendered, or awaits its responses), redirected to /login, access
\* denied, not found.  It redirects at most once: a logged-out dispatch of a
\* protected path goes to /login, whose handler renders; a logged-in
\* dispatch of /login or /register goes to /, whose handler runs.
C20_DispatchEnds ==
  last.op # "none"
    => /\ Cardinality(DispatchOutcomes) = 1
       /\ last.redirects <= 1
       /\ Len(last.invoked) <= 2
       /\ ~last.escaped

\* C20 witness: a logged-in user's dispatch of /login was redirected once,
\* to /, and the home handler runs.
C20_Witness ==
  /\ last.op # "none"
  /\ last.path = "/login"
  /\ last.user # Null
  /\ last.redirects = 1
  /\ last.invoked = <<"renderLogin", "renderHome">>
  /\ hash = "/"
  /\ DispatchOutcomes = {"handled"}

\* C21: with the session record shared by two tabs, after the other tab's
\* logout removed the record this tab's current user stays non-null and its
\* dispatches of protected paths keep passing the authentication guard, and
\* the role guard as the user's role says, through every step of this tab
\* but its reload and its own logout.
C21_OtherTabLogoutUnseen ==
  [][(/\ phase = "ready" /\ phase' = "ready"
      /\ currentUser # Null
      /\ storage = Null \/ storage' = Null
      /\ lastAuth'.op # "logout")
       => /\ currentUser' # Null
          /\ \A r \in 1..Len(Routes) :
               (/\ last'.op # "none"
                /\ RouteOfPath(last'.path) = r
                /\ Routes[r].requiresAuth)
                 => /\ last'.user = currentUser'
                    /\ last'.redirects = 0
                    /\ IF Routes[r].requiredRole \in {"", currentUser'.role}
                         THEN /\ ~last'.denied
                              /\ last'.invoked = <<Routes[r].handler>>
                         ELSE last'.denied /\ last'.invoked = <<>>]_vars

\* C21 witness: the record is gone, this tab still holds the administrator
\* and has just dispatched an administrator's path to its handler.
C21_Witness ==
  /\ phase = "ready"
  /\ storage = Null
  /\ currentUser # Null
  /\ currentUser.role = "admin"
  /\ last.op # "none"
  /\ last.path \in AdminPaths
  /\ ~last.denied
  /\ last.invoked = <<Routes[RouteOfPath(last.path)].handler>>

\* no two users of the collection share a user name or an e-mail address
NoDuplicateUsers(arr) ==
  \A i, j \in 1..Len(arr) :
    i # j => arr[i].username # arr[j].username /\ arr[i].email # arr[j].email

\* the error register() throws for userData against the collection it
\* fetched, or "" when both of its uniqueness checks pass
DuplicateError(arr, userData) ==
  IF \E i \in 1..Len(arr) : arr[i].username = userData.username
    THEN "username-exists"
  ELSE IF \E i \in 1..Len(arr) : arr[i].email = userData.email
    THEN "email-exists"
  ELSE ""

\* C22: with register calls that do not overlap, a user collection without
\* duplicates stays without two users of one user name or of one e-mail
\* address; a register whose user name or e-mail address is in the
\* collection it fetched rejects with username-exists (tested first) or
\* email-exists, creates no user and logs nobody in.
C22_RegisterKeepsUsersUnique ==
  [][/\ NoDuplicateUsers(users) => NoDuplicateUsers(users')
     /\ (/\ authOp # Null
         /\ authOp.kind = "register-check"
         /\ authOp' # authOp
         /\ phase' = "ready"
         /\ lastAuth'.outcome # "network"
         /\ DuplicateError(users, authOp.userData) # "")
          => /\ lastAuth'.op = "register"
             /\ lastAuth'.outcome = DuplicateError(users, authOp.userData)
             /\ lastAuth'.notified = <<>>
             /\ authOp' = Null
             /\ users' = users
             /\ nextUserId' = nextUserId
             /\ currentUser' = currentUser
             /\ storage' = storage]_vars

\* C22 witness: a register with a new user name and the e-mail address of a
\* stored user was rejected for the address, nobody is logged in and the
\* collection is as it was.
C22_Witness ==
  /\ lastAuth.op = "register"
  /\ lastAuth.outcome = "email-exists"
  /\ currentUser = Null
  /\ storage = Null
  /\ users = <<AdminRecord, User1Record>>

\* C23: register(userData) with a missing field among firstName, lastName,
\* username, email, password rejects with the required-field error; else
\* with a malformed e-mail address it rejects with the e-mail error; else
\* with a password of fewer than 6 characters it rejects with the password
\* error.  Such a call issues no request and leaves the current user, the
\* persisted session and the users as they are; every other call goes on to
\* its first request.
C23_RegisterValidatesFirst ==
  [][(/\ authOp = Null
      /\ lastAuth'.op = "register" \/ authOp' # Null)
       => \A userData \in RegisterInputs :
            RegisterCall(userData)
              => LET expected ==
                       IF \E i \in 1..Len(RequiredFields) :
                            userData[RequiredFields[i]] = <<>>
                         THEN "required"
                       ELSE IF ~isValidEmail(userData.email)
                         THEN "invalid-email"
                       ELSE IF Len(userData.password) < 6
                         THEN "weak-password"
                       ELSE "ok"
                 IN IF expected = "ok"
                      THEN /\ authOp' # Null
                           /\ authOp'.kind = "register-check"
                           /\ lastAuth' = NoAuth
                      ELSE /\ lastAuth'.op = "register"
                           /\ lastAuth'.outcome = expected
                           /\ lastAuth'.notified = <<>>
                           /\ authOp' = Null
                           /\ currentUser' = currentUser
                           /\ storage' = storage
                           /\ users' = users]_vars

\* C23 witness: a logged-in user's register call was rejected for its
\* e-mail address; no request is in flight and the session is in place.
C23_Witness ==
  /\ lastAuth.op = "register"
  /\ lastAuth.outcome = "invalid-email"
  /\ authOp = Null
  /\ currentUser # Null
  /\ storage # Null

\* C24: on a form with setupFormValidation installed, a submit in which a
\* ruled field is invalid issues no create or update call.
C24_InvalidSubmitSendsNothing ==
  (submitLog.fired /\ submitLog.invalid # {}) => submitLog.calls = <<>>

\* C30: a field whose rule has minLength and is not required (the New
\* Password of the user and profile forms) is valid when its value is empty:
\* validateField, run on blur or at submit, leaves it without error mark and
\* message, and it does not make the submit invalid.
C30_EmptyOptionalFieldValid ==
  [][(/\ form # Null
      /\ Trim(form.values["password"]) = <<>>
      /\ Blur("password") \/ (Submit /\ submitLog'.fired))
       => /\ ~form'.marks["password"]
          /\ form'.messages["password"] = ""
          /\ "password" \notin submitLog'.invalid]_vars

\* C25: logout(), called in any state of a started tab (logged in or not, a
\* call of the AuthManager in flight or not), removes the persisted session
\* record, sets the current user to null, calls every observer with null
\* and resolves true; it changes nothing else, so that a logout of a
\* logged-out tab leaves the state it found.
C25_LogoutClearsSession ==
  [][lastAuth'.op = "logout"
       => /\ storage' = Null
          /\ currentUser' = Null
          /\ lastAuth'.outcome = "ok"
          /\ lastAuth'.notified = <<Null>>
          /\ lastAuth'.calls = [i \in 1..Len(authCallbacks) |->
                                 [callback |-> authCallbacks[i], user |-> Null]]
          /\ UNCHANGED <<users, authOp, phase, hash, view, currentRoute>>
          /\ (storage = Null /\ currentUser = Null)
               => UNCHANGED <<storage, currentUser>>]_vars

\* C25 witness: logout ran while a call of the AuthManager was awaiting its
\* response; the record is gone and nobody is logged in.
C25_Witness ==
  /\ lastAuth.op = "logout"
  /\ lastAuth.outcome = "ok"
  /\ authOp # Null
  /\ storage = Null
  /\ currentUser = Null

\* C26: once logout() has completed, the current user stays null when a
\* login or updateProfile call issued before the logout receives its
\* response after it.
C26_LogoutOutlastsOlderCalls ==
  [][(/\ lastAuth.op = "logout"
      /\ currentUser = Null
      /\ authOp # Null
      /\ authOp.kind \in {"login", "update"}
      /\ authOp' = Null)
       => currentUser' = Null]_vars

\* C27: when a second navigation is dispatched while the first route's
\* handler still awaits its responses, then once the handlers have settled
\* the rendered content is the page of currentRoute, the route navigated to
\* last.
C27_LatestNavigationWins ==
  [][(/\ phase' = "ready"
      /\ last'.op = "none"
      /\ \E page \in pending : pending' = {} /\ view' = page)
       => /\ currentRoute' # Null
          /\ view' = PageOf(Routes[RouteOfPath(currentRoute'.path)].handler)]_vars

\* C28: in one tab whose calls of the AuthManager do not overlap, after
\* init has completed the current user is non-null exactly when a session
\* record is persisted, and the record's user id is the current user's: a
\* step of init, login, register, updateProfile or logout that finds this so
\* leaves it so.  (The overlap left out: an updateProfile answered after a
\* logout.)
C28_SessionMatchesCurrentUser ==
  [][LET SessionMatchesUser ==
           /\ currentUser # Null <=> storage # Null
           /\ storage # Null => StoredSession.user.id = currentUser.id
     IN (/\ phase' = "ready"
         /\ phase = "ready" => SessionMatchesUser
         /\ ~(authOp # Null /\ authOp.kind = "update" /\ currentUser = Null))
          => SessionMatchesUser']_vars

\* C28 witness: an updateProfile completed, and the persisted record is the
\* current user's.
C28_Witness ==
  /\ phase = "ready"
  /\ authOp = Null
  /\ lastAuth.op = "updateProfile"
  /\ lastAuth.outcome = "ok"
  /\ currentUser # Null
  /\ storage # Null
  /\ StoredSession.user = currentUser

\* C29: with the calls run one after another and no request failing, from
\* an event whose registeredCount is its number of rows with at most one row
\* per (user, event), between calls every event's registeredCount is the
\* number of its registration rows and no pair has two rows; a successful
\* cancelRegistration(u, e) leaves no row of (u, e), so that after
\* registerForEvent(u, e) it gives back the count and the rows there were.
C29_CountIsNumberOfRows ==
  AllIdle
    => /\ \A e \in EventIds :
            events[e].registeredCount = Len(RowsOfEvent(regs, e))
       /\ \A u \in RegUsers, e \in EventIds :
            Len(RegistrationsOf(regs, u, e)) <= 1
       /\ (regLog.op = "cancel" /\ regLog.outcome = "ok")
            => RegistrationsOf(regs, regLog.userId, regLog.eventId) = <<>>

\* C29 witness: of two users registered for the event one has cancelled;
\* the other's row is left and the count is 1.
C29_Witness ==
  /\ AllIdle
  /\ regLog.op = "cancel"
  /\ regLog.outcome = "ok"
  /\ Len(RowsOfEvent(regs, regLog.eventId)) = 1
  /\ events[regLog.eventId].registeredCount = 1

====
